---- MODULE Spec2Model ----
(***************************************************************************)
(* Model of the go-datastore storage engine (engine/DataStore.go), its     *)
(* prefix index (engine/PrefixTrie.go), its wire codec                     *)
(* (wire/WireProtocol.go), its server (server/Server.go) and its client    *)
(* (client/Client.go).                                                     *)
(*                                                                         *)
(* Strings that are keys or prefixes are represented by the result of      *)
(* strings.Split(s, ":"): a non-empty sequence of colon-free components.   *)
(* The key "a:b" is <<"a","b">> and the empty key "" is <<"">>.  A trie    *)
(* node is named by the path of components that leads to it; the root is   *)
(* the empty path <<>>.                                                    *)
(***************************************************************************)
EXTENDS Integers, Sequences, FiniteSets, TLC

VARIABLES inMemoryStore, keyIndex, now, sweeps, ret, lock, pc, loc, opsLeft,
          wire, server, connection

vars == <<inMemoryStore, keyIndex, now, sweeps, ret, lock, pc, loc, opsLeft,
          wire, server, connection>>

(***************************************************************************)
(* Bounds                                                                  *)
(***************************************************************************)
MaxTime == 3

MaxSweeps == 2

MaxOps == 3

(* the longest argument, in bytes, and the most arguments of a message *)
MaxArgLen == 2

MaxArgs == 2

Keys == {<<"a">>, <<"a", "b">>}

Prefixes == Keys \cup {<<"">>, <<"b">>, <<"a", "">>}

Values == {"v1", "v2"}

Times == 1..MaxTime

(* the timestamps handed to Expire and ExpireBy: the last two instants *)
(* the clock passes                                                   *)
Expirations == {MaxTime - 2, MaxTime - 1}

Clients == {"c1", "c2"}

(***************************************************************************)
(* time.Time{} : the zero time, earlier than every clock reading.          *)
(***************************************************************************)
ZeroTime == 0

(***************************************************************************)
(* dataNode                                                                *)
(***************************************************************************)
ZeroNode == [value |-> "", hasExpiration |-> FALSE, expiration |-> ZeroTime]

NewNode(v) == [value |-> v, hasExpiration |-> FALSE, expiration |-> ZeroTime]

(* ds.inMemoryStore[key] : a missing key reads as the zero dataNode *)
Lookup(store, key) == IF key \in DOMAIN store THEN store[key] ELSE ZeroNode

MapSet(store, key, node) ==
    [k \in DOMAIN store \cup {key} |-> IF k = key THEN node ELSE store[k]]

MapDelete(store, ks) == [k \in DOMAIN store \ ks |-> store[k]]

(***************************************************************************)
(* PrefixTrie.  A trie is a function from the paths of its nodes to        *)
(* [isKey, leavesNil]; leavesNil is TRUE while the node's leaves map is    *)
(* the nil map (it never had a child), FALSE once the map was allocated,   *)
(* also when it has become empty again.                                    *)
(***************************************************************************)
NewPrefixTrie == [p \in {<<>>} |-> [isKey |-> FALSE, leavesNil |-> TRUE]]

(* trieNode.value: the cumulative prefix; the root's value is "" *)
NodeValue(p) == IF p = <<>> THEN <<"">> ELSE p

Children(t, p) ==
    {q \in DOMAIN t : Len(q) = Len(p) + 1 /\ SubSeq(q, 1, Len(p)) = p}

IsUnder(q, p) == Len(q) >= Len(p) /\ SubSeq(q, 1, Len(p)) = p

(* faulty variant: Add marking every node on the key's path as a key *)
AddMarkingPath(t, key) ==
    LET walk == {SubSeq(key, 1, i) : i \in 0..Len(key)}
    IN [p \in DOMAIN t \cup walk |->
          IF p = key
          THEN [isKey |-> TRUE,
                leavesNil |-> IF p \in DOMAIN t THEN t[p].leavesNil ELSE TRUE]
          ELSE IF p \in walk
          THEN [isKey |-> p # <<>>, leavesNil |-> FALSE]
          ELSE t[p]]

Add(t, key) ==
    LET walk == {SubSeq(key, 1, i) : i \in 0..Len(key)}
    IN [p \in DOMAIN t \cup walk |->
          IF p = key
          THEN [isKey |-> TRUE,
                leavesNil |-> IF p \in DOMAIN t THEN t[p].leavesNil ELSE TRUE]
          ELSE IF p \in walk
          THEN [isKey |-> IF p \in DOMAIN t THEN t[p].isKey ELSE FALSE,
                leavesNil |-> FALSE]
          ELSE t[p]]

RECURSIVE findKeys(_, _)
findKeys(t, p) ==
    IF p \notin DOMAIN t THEN {}
    ELSE IF t[p].leavesNil THEN {NodeValue(p)}
    ELSE (IF t[p].isKey THEN {NodeValue(p)} ELSE {})
         \cup UNION {findKeys(t, c) : c \in Children(t, p)}

(* faulty variant: Find dropping a trailing empty component of the prefix *)
FindTrimmed(t, prefix) ==
    IF prefix = <<"">> THEN findKeys(t, <<>>)
    ELSE IF Len(prefix) > 1 /\ prefix[Len(prefix)] = ""
    THEN findKeys(t, SubSeq(prefix, 1, Len(prefix) - 1))
    ELSE findKeys(t, prefix)

Find(t, prefix) ==
    IF prefix = <<"">> THEN findKeys(t, <<>>) ELSE findKeys(t, prefix)

RECURSIVE deleteKey(_, _, _)
RECURSIVE deleteKeyLoop(_, _, _, _, _)
deleteKeyLoop(t, node, key, todo, any) ==
    IF todo = {} THEN [trie |-> t, any |-> any]
    ELSE LET c == CHOOSE x \in todo : TRUE
             r == deleteKey(t, c, key)
             t2 == IF ~r.del THEN r.trie
                   ELSE IF r.trie[c].leavesNil
                   THEN [p \in DOMAIN r.trie \ {c} |-> r.trie[p]]
                   ELSE [r.trie EXCEPT ![c].isKey = FALSE]
         IN deleteKeyLoop(t2, node, key, todo \ {c}, any \/ r.any)

deleteKey(t, node, key) ==
    IF NodeValue(node) = key
    THEN [trie |-> t, del |-> TRUE, any |-> t[node].isKey]
    ELSE LET r == deleteKeyLoop(t, node, key, Children(t, node), FALSE)
         IN [trie |-> r.trie,
             del |-> r.trie[node].leavesNil /\ ~r.trie[node].isKey,
             any |-> r.any]

Delete(t, key) == deleteKey(t, <<>>, key).trie

RECURSIVE deleteBranch(_, _, _)
RECURSIVE deleteBranchLoop(_, _, _, _, _)
deleteBranchLoop(t, node, prefix, todo, any) ==
    IF todo = {} THEN [trie |-> t, any |-> any]
    ELSE LET c == CHOOSE x \in todo : TRUE
             r == deleteBranch(t, c, prefix)
         IN IF r.del
            THEN [trie |-> [p \in {q \in DOMAIN r.trie : ~IsUnder(q, c)} |-> r.trie[p]],
                  any |-> any \/ r.any]
            ELSE deleteBranchLoop(r.trie, node, prefix, todo \ {c}, any \/ r.any)

deleteBranch(t, node, prefix) ==
    IF NodeValue(node) = prefix
    THEN [trie |-> t, del |-> TRUE, any |-> TRUE]
    ELSE LET r == deleteBranchLoop(t, node, prefix, Children(t, node), FALSE)
         IN [trie |-> r.trie, del |-> FALSE, any |-> r.any]

DeleteAll(t, prefix) ==
    LET r == deleteBranch(t, <<>>, prefix)
    IN IF r.del
       THEN [p \in {<<>>} |-> [isKey |-> r.trie[<<>>].isKey, leavesNil |-> FALSE]]
       ELSE r.trie

(***************************************************************************)
(* DataStore: the results of the read-only operations, as functions of the *)
(* map, the trie and the clock reading time.Now().                         *)
(***************************************************************************)
(* faulty variant: expiration.Before replaced by "not After" *)
ExpiredAtInstant(node, t) == node.hasExpiration /\ node.expiration <= t

(* value.hasExpiration && value.expiration.Before(t) *)
Expired(node, t) == node.hasExpiration /\ node.expiration < t

(* faulty variant: Read without the expiration check *)
ReadResultUnshadowed(store, key, t) ==
    [value |-> Lookup(store, key).value,
     expiration |-> Lookup(store, key).expiration,
     present |-> key \in DOMAIN store]

ReadResult(store, key, t) ==
    LET readValue == Lookup(store, key)
    IN IF Expired(readValue, t)
       THEN [value |-> "", expiration |-> ZeroTime, present |-> FALSE]
       ELSE [value |-> readValue.value, expiration |-> readValue.expiration,
             present |-> key \in DOMAIN store]

ReadExpirationResult(store, key, t) ==
    LET readValue == Lookup(store, key)
    IN IF key \notin DOMAIN store \/ Expired(readValue, t)
       THEN [expiration |-> ZeroTime, present |-> FALSE]
       ELSE [expiration |-> readValue.expiration, present |-> readValue.hasExpiration]

PresentResult(store, key, t) == ReadResult(store, key, t).present

(* faulty variant: KeysBy returning allKeys without the Present filter *)
KeysByUnfiltered(store, t, prefix, tm) == Find(t, prefix)

KeysByResult(store, t, prefix, tm) ==
    {key \in Find(t, prefix) : PresentResult(store, key, tm)}

(* the write of Update: ds.inMemoryStore[key] = dataNode{value: value} *)
UpdateWrite(store, key, value) == MapSet(store, key, NewNode(value))

(* faulty variant: Expire keeping an expiration the entry already has *)
ExpireWriteOnce(store, key, expiration) ==
    IF Lookup(store, key).hasExpiration THEN store
    ELSE MapSet(store, key, [Lookup(store, key) EXCEPT !.hasExpiration = TRUE,
                                                       !.expiration = expiration])

(* the write of Expire on the entry currently in the map *)
ExpireWrite(store, key, expiration) ==
    MapSet(store, key, [Lookup(store, key) EXCEPT !.hasExpiration = TRUE,
                                                  !.expiration = expiration])

RECURSIVE ExpireAll(_, _, _, _)
ExpireAll(store, ks, expiration, tm) ==
    IF ks = {} THEN store
    ELSE LET key == CHOOSE x \in ks : TRUE
         IN ExpireAll(IF PresentResult(store, key, tm)
                      THEN ExpireWrite(store, key, expiration) ELSE store,
                      ks \ {key}, expiration, tm)

(* the keys cleanupExpirations removes at clock reading timestamp *)
ExpiredKeys(store, timestamp) ==
    {key \in DOMAIN store : Expired(store[key], timestamp)}

(* the tries keyIndex.Delete can leave, over the orders of the map range *)
RECURSIVE DeleteEach(_, _)
DeleteEach(t, ks) ==
    IF ks = {} THEN {t}
    ELSE UNION {DeleteEach(Delete(t, key), ks \ {key}) : key \in ks}

NoKey == <<>>

(* What the last call returned (value, expiration, ok, keys, n), with the  *)
(* call it answers (op, key, arg, argt), the clock reading of the call (at) *)
(* and the entry the map held under key when the call began (old, oldIn).  *)
Result(op, key, arg, argt, value, expiration, ok, keys, n) ==
    [op |-> op, key |-> key, arg |-> arg, argt |-> argt, value |-> value,
     expiration |-> expiration, ok |-> ok, keys |-> keys, n |-> n,
     old |-> Lookup(inMemoryStore, key),
     oldIn |-> key \in DOMAIN inMemoryStore,
     at |-> now]

NoResult ==
    [op |-> "none", key |-> NoKey, arg |-> "", argt |-> ZeroTime, value |-> "",
     expiration |-> ZeroTime, ok |-> FALSE, keys |-> {}, n |-> 0,
     old |-> ZeroNode, oldIn |-> FALSE, at |-> ZeroTime]

(* a goroutine's locals: the call and its arguments, what its Read saw *)
(* under the lock (node, inMap), and what the call returned            *)
Locals(op, key, arg, exp, node, inMap, value, ok, keys, n) ==
    [op |-> op, key |-> key, arg |-> arg, exp |-> exp, node |-> node,
     inMap |-> inMap, value |-> value, ok |-> ok, keys |-> keys, n |-> n,
     todo |-> {}, cur |-> NoKey]

NoLocals == Locals("none", NoKey, "", ZeroTime, ZeroNode, FALSE, "", FALSE, {}, 0)

Call(op, key, arg, exp) ==
    Locals(op, key, arg, exp, ZeroNode, FALSE, "", FALSE, {}, 0)

(***************************************************************************)
(* The engine's operations run one at a time: each action is one call,     *)
(* from entry to return.  "go ds.cleanupExpirations()" adds a pending      *)
(* sweep, which runs as the action cleanupExpirations.                     *)
(***************************************************************************)
concUnchanged == UNCHANGED <<lock, pc, loc, opsLeft, wire, server, connection>>

Read(key) ==
    LET r == ReadResult(inMemoryStore, key, now)
    IN /\ ret' = Result("Read", key, "", ZeroTime, r.value, r.expiration, r.present, {}, 0)
       /\ UNCHANGED <<inMemoryStore, keyIndex, now, sweeps>>
       /\ concUnchanged

ReadExpiration(key) ==
    LET r == ReadExpirationResult(inMemoryStore, key, now)
    IN /\ ret' = Result("ReadExpiration", key, "", ZeroTime, "", r.expiration, r.present, {}, 0)
       /\ UNCHANGED <<inMemoryStore, keyIndex, now, sweeps>>
       /\ concUnchanged

Present(key) ==
    /\ ret' = Result("Present", key, "", ZeroTime, "", ZeroTime,
                     PresentResult(inMemoryStore, key, now), {}, 0)
    /\ UNCHANGED <<inMemoryStore, keyIndex, now, sweeps>>
    /\ concUnchanged

(* faulty variant: Insert writing the value into the entry the map holds *)
InsertKeepingExpiration(key, value) ==
    LET r == ReadResult(inMemoryStore, key, now)
    IN /\ sweeps < MaxSweeps
       /\ sweeps' = sweeps + 1
       /\ IF ~r.present
          THEN /\ inMemoryStore' =
                     MapSet(inMemoryStore, key,
                            [Lookup(inMemoryStore, key) EXCEPT !.value = value])
               /\ keyIndex' = Add(keyIndex, key)
               /\ ret' = Result("Insert", key, value, ZeroTime, value, ZeroTime, TRUE, {}, 0)
          ELSE /\ UNCHANGED <<inMemoryStore, keyIndex>>
               /\ ret' = Result("Insert", key, value, ZeroTime, r.value, ZeroTime, FALSE, {}, 0)
       /\ UNCHANGED now
       /\ concUnchanged

(* faulty variant: Insert without the test of valueExists *)
InsertOverwriting(key, value) ==
    /\ sweeps < MaxSweeps
    /\ sweeps' = sweeps + 1
    /\ inMemoryStore' = MapSet(inMemoryStore, key, NewNode(value))
    /\ keyIndex' = Add(keyIndex, key)
    /\ ret' = Result("Insert", key, value, ZeroTime, value, ZeroTime, TRUE, {}, 0)
    /\ UNCHANGED now
    /\ concUnchanged

Insert(key, value) ==
    LET r == ReadResult(inMemoryStore, key, now)
    IN /\ sweeps < MaxSweeps
       /\ sweeps' = sweeps + 1
       /\ IF ~r.present
          THEN /\ inMemoryStore' = MapSet(inMemoryStore, key, NewNode(value))
               /\ keyIndex' = Add(keyIndex, key)
               /\ ret' = Result("Insert", key, value, ZeroTime, value, ZeroTime, TRUE, {}, 0)
          ELSE /\ UNCHANGED <<inMemoryStore, keyIndex>>
               /\ ret' = Result("Insert", key, value, ZeroTime, r.value, ZeroTime, FALSE, {}, 0)
       /\ UNCHANGED now
       /\ concUnchanged

(* faulty variant: Update writing without the test of valueExists *)
UpdateUnchecked(key, value) ==
    /\ sweeps < MaxSweeps
    /\ sweeps' = sweeps + 1
    /\ inMemoryStore' = UpdateWrite(inMemoryStore, key, value)
    /\ ret' = Result("Update", key, value, ZeroTime, value, ZeroTime,
                     PresentResult(inMemoryStore, key, now), {}, 0)
    /\ UNCHANGED <<keyIndex, now>>
    /\ concUnchanged

Update(key, value) ==
    /\ sweeps < MaxSweeps
    /\ sweeps' = sweeps + 1
    /\ IF PresentResult(inMemoryStore, key, now)
       THEN /\ inMemoryStore' = UpdateWrite(inMemoryStore, key, value)
            /\ ret' = Result("Update", key, value, ZeroTime, value, ZeroTime, TRUE, {}, 0)
       ELSE /\ UNCHANGED inMemoryStore
            /\ ret' = Result("Update", key, value, ZeroTime, "", ZeroTime, FALSE, {}, 0)
    /\ UNCHANGED <<keyIndex, now>>
    /\ concUnchanged

Upsert(key, value) ==
    /\ sweeps < MaxSweeps
    /\ sweeps' = sweeps + 1
    /\ inMemoryStore' = MapSet(inMemoryStore, key, NewNode(value))
    /\ keyIndex' = Add(keyIndex, key)
    /\ ret' = Result("Upsert", key, value, ZeroTime, value, ZeroTime, TRUE, {}, 0)
    /\ UNCHANGED now
    /\ concUnchanged

(* faulty variant: Delete removing the key from the map only *)
DeleteOpMapOnly(key) ==
    /\ sweeps < MaxSweeps
    /\ sweeps' = sweeps + 1
    /\ inMemoryStore' = MapDelete(inMemoryStore, {key})
    /\ ret' = Result("Delete", key, "", ZeroTime, "", ZeroTime,
                     PresentResult(inMemoryStore, key, now), {}, 0)
    /\ UNCHANGED <<keyIndex, now>>
    /\ concUnchanged

DeleteOp(key) ==
    /\ sweeps < MaxSweeps
    /\ sweeps' = sweeps + 1
    /\ inMemoryStore' = MapDelete(inMemoryStore, {key})
    /\ keyIndex' = Delete(keyIndex, key)
    /\ ret' = Result("Delete", key, "", ZeroTime, "", ZeroTime,
                     PresentResult(inMemoryStore, key, now), {}, 0)
    /\ UNCHANGED now
    /\ concUnchanged

(* faulty variant: Count reporting only the keys that are still present *)
CountLive ==
    /\ ret' = Result("Count", NoKey, "", ZeroTime, "", ZeroTime, TRUE, {},
                     Cardinality({key \in DOMAIN inMemoryStore :
                                     PresentResult(inMemoryStore, key, now)}))
    /\ UNCHANGED <<inMemoryStore, keyIndex, now, sweeps>>
    /\ concUnchanged

Count ==
    /\ ret' = Result("Count", NoKey, "", ZeroTime, "", ZeroTime, TRUE, {},
                     Cardinality(DOMAIN inMemoryStore))
    /\ UNCHANGED <<inMemoryStore, keyIndex, now, sweeps>>
    /\ concUnchanged

Truncate ==
    /\ inMemoryStore' = <<>>
    /\ ret' = Result("Truncate", NoKey, "", ZeroTime, "", ZeroTime, TRUE, {}, 0)
    /\ UNCHANGED <<keyIndex, now, sweeps>>
    /\ concUnchanged

Expire(key, expiration) ==
    /\ IF PresentResult(inMemoryStore, key, now)
       THEN /\ inMemoryStore' = ExpireWrite(inMemoryStore, key, expiration)
            /\ ret' = Result("Expire", key, "", expiration, "", ZeroTime, TRUE, {}, 0)
       ELSE /\ UNCHANGED inMemoryStore
            /\ ret' = Result("Expire", key, "", expiration, "", ZeroTime, FALSE, {}, 0)
    /\ UNCHANGED <<keyIndex, now, sweeps>>
    /\ concUnchanged

KeysBy(prefix) ==
    LET ks == KeysByResult(inMemoryStore, keyIndex, prefix, now)
    IN /\ ret' = Result("KeysBy", prefix, "", ZeroTime, "", ZeroTime, TRUE, ks, Cardinality(ks))
       /\ UNCHANGED <<inMemoryStore, keyIndex, now, sweeps>>
       /\ concUnchanged

DeleteBy(prefix) ==
    LET keysToRemove == Find(keyIndex, prefix)
    IN /\ keyIndex' = DeleteAll(keyIndex, prefix)
       /\ inMemoryStore' = MapDelete(inMemoryStore, keysToRemove)
       /\ ret' = Result("DeleteBy", prefix, "", ZeroTime, "", ZeroTime, TRUE, {},
                        Cardinality(keysToRemove))
       /\ UNCHANGED <<now, sweeps>>
       /\ concUnchanged

(* faulty variant: ExpireBy ranging over keyIndex.Find instead of KeysBy *)
ExpireByFound(prefix, expiration) ==
    LET keysToExpire == Find(keyIndex, prefix)
    IN /\ inMemoryStore' = ExpireAll(inMemoryStore, keysToExpire, expiration, now)
       /\ ret' = Result("ExpireBy", prefix, "", expiration, "", ZeroTime, TRUE, {},
                        Cardinality(keysToExpire))
       /\ UNCHANGED <<keyIndex, now, sweeps>>
       /\ concUnchanged

ExpireBy(prefix, expiration) ==
    LET keysToExpire == KeysByResult(inMemoryStore, keyIndex, prefix, now)
    IN /\ inMemoryStore' = ExpireAll(inMemoryStore, keysToExpire, expiration, now)
       /\ ret' = Result("ExpireBy", prefix, "", expiration, "", ZeroTime, TRUE, {},
                        Cardinality(keysToExpire))
       /\ UNCHANGED <<keyIndex, now, sweeps>>
       /\ concUnchanged

cleanupExpirations ==
    LET gone == ExpiredKeys(inMemoryStore, now)
    IN /\ sweeps > 0
       /\ sweeps' = sweeps - 1
       /\ inMemoryStore' = MapDelete(inMemoryStore, gone)
       /\ keyIndex' \in DeleteEach(keyIndex, gone)
       /\ ret' = Result("cleanupExpirations", NoKey, "", ZeroTime, "", ZeroTime, TRUE, {},
                        Cardinality(gone))
       /\ UNCHANGED now
       /\ concUnchanged

(* the wall clock advances *)
Tick ==
    /\ now < MaxTime
    /\ now' = now + 1
    /\ UNCHANGED <<inMemoryStore, keyIndex, sweeps, ret>>
    /\ concUnchanged

(***************************************************************************)
(* Protocol (wire/WireProtocol.go).  A byte is a number in 0..255; a       *)
(* string, a Command and a message are sequences of bytes.  A Go index i   *)
(* of a slice is position i + 1 of the sequence.  The Command constants    *)
(* are spelled in ASCII.                                                   *)
(***************************************************************************)
READ == <<82, 69, 65, 68>>

READEXPIRATION == <<82, 69, 65, 68, 69, 88, 80, 73, 82, 65, 84, 73, 79, 78>>

INSERT == <<73, 78, 83, 69, 82, 84>>

UPDATE == <<85, 80, 68, 65, 84, 69>>

UPSERT == <<85, 80, 83, 69, 82, 84>>

DELETE == <<68, 69, 76, 69, 84, 69>>

PRESENT == <<80, 82, 69, 83, 69, 78, 84>>

EXPIRE == <<69, 88, 80, 73, 82, 69>>

TRUNCATE == <<84, 82, 85, 78, 67, 65, 84, 69>>

COUNT == <<67, 79, 85, 78, 84>>

KEYSBY == <<75, 69, 89, 83, 66, 89>>

DELETEBY == <<68, 69, 76, 69, 84, 69, 66, 89>>

EXPIREBY == <<69, 88, 80, 73, 82, 69, 66, 89>>

ACK == <<65, 67, 75>>

NULL == <<78, 85, 76, 76>>

ERR == <<69, 82, 82>>

ValidCommands ==
    {READ, READEXPIRATION, INSERT, UPDATE, UPSERT, DELETE, PRESENT, EXPIRE,
     TRUNCATE, COUNT, KEYSBY, DELETEBY, EXPIREBY, ACK, NULL, ERR}

messageSeparatorBinary == 124

(* faulty variant: the length written most significant byte first *)
PutUint32BigEndian(n) ==
    <<(n \div 16777216) % 256, (n \div 65536) % 256, (n \div 256) % 256,
      n % 256>>

(* binary.LittleEndian.PutUint32(b, uint32(n)): the four low bytes of n, *)
(* the conversion to uint32 being the % 256 of the fourth               *)
PutUint32(n) ==
    <<n % 256, (n \div 256) % 256, (n \div 65536) % 256,
      (n \div 16777216) % 256>>

(* binary.LittleEndian.Uint32(b) *)
Uint32(b) == b[1] + 256 * b[2] + 65536 * b[3] + 16777216 * b[4]

(* the loop of EncodeMessage over params *)
RECURSIVE EncodeParams(_, _)
EncodeParams(message, params) ==
    IF params = <<>> THEN message
    ELSE LET paramBytes == Head(params)
             paramSize == PutUint32(Len(paramBytes))
         IN EncodeParams(message \o <<messageSeparatorBinary>> \o paramSize
                            \o <<messageSeparatorBinary>> \o paramBytes,
                         Tail(params))

EncodeMessage(command, params) ==
    LET message == EncodeParams(<<messageSeparatorBinary>> \o command, params)
        messageLength == Len(message) + 4
    IN PutUint32(messageLength) \o message

(* the bytes DecipherCommand collects from index 5 up to a separator *)
RECURSIVE commandBytes(_, _)
commandBytes(request, i) ==
    IF i >= Len(request) \/ request[i + 1] = messageSeparatorBinary THEN <<>>
    ELSE <<request[i + 1]>> \o commandBytes(request, i + 1)

(* faulty variant: the command read from index 4, the separator's place *)
DecipherCommandFromSeparator(request) ==
    LET parsedCommand == commandBytes(request, 4)
    IN IF parsedCommand \in ValidCommands
       THEN [command |-> parsedCommand, err |-> FALSE]
       ELSE [command |-> <<>>, err |-> TRUE]

DecipherCommand(request) ==
    LET parsedCommand == commandBytes(request, 5)
    IN IF parsedCommand \in ValidCommands
       THEN [command |-> parsedCommand, err |-> FALSE]
       ELSE [command |-> <<>>, err |-> TRUE]

(* the loop of decodeCommand, from messageOffset on *)
RECURSIVE decodeArguments(_, _, _)
decodeArguments(message, messageOffset, arguments) ==
    IF /\ messageOffset < Len(message)
       /\ message[messageOffset + 1] = messageSeparatorBinary
    THEN IF messageOffset + 5 > Len(message)
         THEN [arguments |-> <<>>, err |-> TRUE]
         ELSE LET argumentSize ==
                      Uint32(SubSeq(message, messageOffset + 2, messageOffset + 5))
                  argumentStart == messageOffset + 6
                  argumentEnd == argumentStart + argumentSize
              IN IF argumentEnd > Len(message)
                 THEN [arguments |-> <<>>, err |-> TRUE]
                 ELSE decodeArguments(
                          message, argumentEnd,
                          Append(arguments,
                                 SubSeq(message, argumentStart + 1, argumentEnd)))
    ELSE IF messageOffset # Len(message)
    THEN [arguments |-> <<>>, err |-> TRUE]
    ELSE [arguments |-> arguments, err |-> FALSE]

decodeCommand(command, message) ==
    LET prefixSize == 5 + Len(command)
    IN decodeArguments(message, prefixSize, <<>>)

(* DecodeError: the message of the error in arguments; err tells that *)
(* the bytes could not be decoded                                     *)
DecodeError(message) ==
    LET a == decodeCommand(ERR, message)
    IN IF a.err THEN [arguments |-> <<>>, err |-> TRUE]
       ELSE IF Len(a.arguments) # 1 THEN [arguments |-> <<>>, err |-> TRUE]
       ELSE [arguments |-> <<a.arguments[1]>>, err |-> FALSE]

(* faulty variant: the four bytes of the length counted, not the separator *)
EncodeErrResponseShort(err) ==
    LET message == ERR \o <<messageSeparatorBinary>> \o PutUint32(Len(err))
                       \o <<messageSeparatorBinary>> \o err
        messageLength == PutUint32(Len(message) + 4) \o <<messageSeparatorBinary>>
    IN messageLength \o message

(* err is the text err.Error() *)
EncodeErrResponse(err) ==
    LET message == ERR \o <<messageSeparatorBinary>> \o PutUint32(Len(err))
                       \o <<messageSeparatorBinary>> \o err
        messageLength == PutUint32(Len(message) + 5) \o <<messageSeparatorBinary>>
    IN messageLength \o message

EncodeNullResponse == <<9, 0, 0, 0, messageSeparatorBinary, 78, 85, 76, 76>>

EncodeAckResponse == <<8, 0, 0, 0, messageSeparatorBinary, 65, 67, 75>>

(* faulty variant: the first argument taken whatever their number *)
decodeKeyCommandFirst(command, message) ==
    LET a == decodeCommand(command, message)
    IN IF a.err \/ a.arguments = <<>> THEN [arguments |-> <<<<>>>>, err |-> TRUE]
       ELSE [arguments |-> <<a.arguments[1]>>, err |-> FALSE]

(* The strings a Decode function returns are listed in arguments; with  *)
(* an error they are the empty strings the code returns.                *)
decodeKeyCommand(command, message) ==
    LET a == decodeCommand(command, message)
    IN IF a.err THEN [arguments |-> <<<<>>>>, err |-> TRUE]
       ELSE IF Len(a.arguments) # 1 THEN [arguments |-> <<<<>>>>, err |-> TRUE]
       ELSE [arguments |-> <<a.arguments[1]>>, err |-> FALSE]

decodeKeyValueCommand(command, message) ==
    LET a == decodeCommand(command, message)
    IN IF a.err THEN [arguments |-> <<<<>>, <<>>>>, err |-> TRUE]
       ELSE IF Len(a.arguments) # 2 THEN [arguments |-> <<<<>>, <<>>>>, err |-> TRUE]
       ELSE [arguments |-> <<a.arguments[1], a.arguments[2]>>, err |-> FALSE]

(* the value of a string of decimal digits, most significant first *)
RECURSIVE digitsValue(_, _)
digitsValue(s, n) ==
    IF s = <<>> THEN n ELSE digitsValue(Tail(s), 10 * n + (Head(s) - 48))

(* strconv.ParseInt(s, 10, 64): an optional sign, then one decimal digit *)
(* or more and nothing else.  The strings at hand are too short to leave *)
(* the 64-bit range.                                                     *)
ParseInt(s) ==
    LET signed == s # <<>> /\ s[1] \in {43, 45}
        digits == IF signed THEN Tail(s) ELSE s
    IN IF digits = <<>> \/ \E i \in 1..Len(digits) : digits[i] \notin 48..57
       THEN [n |-> 0, err |-> TRUE]
       ELSE [n |-> IF s[1] = 45 THEN 0 - digitsValue(digits, 0)
                   ELSE digitsValue(digits, 0),
             err |-> FALSE]

(* A time.Time is the number of its instant, ZeroTime being time.Time{}; *)
(* UnixMilli counts milliseconds, so the unit of a time is the           *)
(* millisecond where the wire is concerned.                              *)
DecodeTime(timestampString) ==
    LET timestamp == ParseInt(timestampString)
    IN IF timestamp.err THEN [time |-> ZeroTime, err |-> TRUE]
       ELSE [time |-> timestamp.n, err |-> FALSE]

(* DecodeExpire: the key in arguments, the time in expiration *)
DecodeExpire(message) ==
    LET a == decodeCommand(EXPIRE, message)
    IN IF a.err \/ Len(a.arguments) # 2
       THEN [arguments |-> <<<<>>>>, expiration |-> ZeroTime, err |-> TRUE]
       ELSE LET decodedTime == DecodeTime(a.arguments[2])
            IN IF decodedTime.err
               THEN [arguments |-> <<<<>>>>, expiration |-> ZeroTime, err |-> TRUE]
               ELSE [arguments |-> <<a.arguments[1]>>,
                     expiration |-> decodedTime.time, err |-> FALSE]

(* the commands whose request decoder takes a key, and a key and a value *)
KeyCommands == {READ, READEXPIRATION, DELETE}

KeyValueCommands == {INSERT, UPDATE, UPSERT}

(* DecodeRead, DecodeReadExpiration, DecodeDelete, DecodeInsert,        *)
(* DecodeUpdate, DecodeUpsert and DecodeExpire, by the command decoded  *)
DecodeRequest(command, message) ==
    IF command \in KeyCommands
    THEN [expiration |-> ZeroTime] @@ decodeKeyCommand(command, message)
    ELSE IF command \in KeyValueCommands
    THEN [expiration |-> ZeroTime] @@ decodeKeyValueCommand(command, message)
    ELSE DecodeExpire(message)

(* the message in hand: what was encoded (command, params), the bytes, *)
(* and what decoding them gave                                         *)
Message(step, command, params, message, gotCommand, gotArguments, err) ==
    [step |-> step, command |-> command, params |-> params, message |-> message,
     gotCommand |-> gotCommand, gotArguments |-> gotArguments, err |-> err]

NoMessage == Message("none", <<>>, <<>>, <<>>, <<>>, <<>>, FALSE)

(***************************************************************************)
(* Server (server/Server.go) and Client (client/Client.go).                *)
(*                                                                         *)
(* server holds the fields started and stopped of the Server, the state of *)
(* the listener, and where the goroutine of listenForConnections (loop)    *)
(* and the caller of Stop (stop) are; wake tells that the connection Stop  *)
(* dialled waits to be accepted; panicked tells that a goroutine has       *)
(* panicked, which ends the process.                                       *)
(***************************************************************************)
New ==
    [started |-> FALSE, stopped |-> TRUE, listener |-> "none", loop |-> "none",
     stop |-> "idle", wake |-> FALSE, panicked |-> FALSE]

(* a call of the Client: the method and its arguments *)
ClientCall(op, key, value, expiration) ==
    [op |-> op, key |-> key, value |-> value, expiration |-> expiration]

NoCall == ClientCall("none", NoKey, "", ZeroTime)

(* what a method of the Client returns; err is "none" for a nil error, *)
(* "ERR" for the error of an ERR response, "transport" for the error   *)
(* of the connection and "protocol" for a response that cannot be read *)
Reply(ok, value, expiration, n, keys, err) ==
    [ok |-> ok, value |-> value, expiration |-> expiration, n |-> n,
     keys |-> keys, err |-> err]

NoReply == Reply(FALSE, "", ZeroTime, 0, {}, "none")

(* The connection between a client and the server: the bytes the client *)
(* wrote (input), the message the handler read off them, the command    *)
(* and the arguments it decoded, why it failed if it did ("read" or     *)
(* "decode"), whether its connection.Write returned an error, the bytes *)
(* it wrote back (output) in so many frames, and what the client's call *)
(* returned (reply).                                                    *)
NoConnection ==
    [step |-> "idle", call |-> NoCall, input |-> <<>>, message |-> <<>>,
     command |-> <<>>, arguments |-> <<>>, expiration |-> ZeroTime,
     failed |-> "none", writeErr |-> FALSE, output |-> <<>>, frames |-> 0,
     reply |-> NoReply]

(* The bytes of the strings the engine is called with.  A key is kept  *)
(* as the components strings.Split(key, ":") gives: its bytes are the  *)
(* components joined by colons (58).                                   *)
Bytes(str) ==
    CASE str = "" -> <<>>
      [] str = "a" -> <<97>>
      [] str = "b" -> <<98>>
      [] str = "v1" -> <<118, 49>>
      [] str = "v2" -> <<118, 50>>

RECURSIVE KeyBytes(_)
KeyBytes(key) ==
    IF Len(key) = 1 THEN Bytes(key[1])
    ELSE Bytes(key[1]) \o <<58>> \o KeyBytes(Tail(key))

(* the key, and the value, that given bytes spell *)
KeyOf(bytes) == CHOOSE key \in Prefixes : KeyBytes(key) = bytes

ValueOf(bytes) == CHOOSE value \in Values \cup {""} : Bytes(value) = bytes

(* strconv.FormatInt(n, 10) *)
RECURSIVE FormatInt(_)
FormatInt(n) ==
    IF n < 0 THEN <<45>> \o FormatInt(0 - n)
    ELSE IF n < 10 THEN <<48 + n>>
    ELSE FormatInt(n \div 10) \o <<48 + (n % 10)>>

(* faulty variant: time.Unix, the seconds, in place of time.UnixMilli *)
EncodeTimeUnix(time) == FormatInt(time \div 1000)

(* strconv.FormatInt(time.UnixMilli(), 10) *)
EncodeTime(time) == FormatInt(time)

encodeAckOrNullResponse(success) ==
    IF success THEN EncodeAckResponse ELSE EncodeNullResponse

EncodeReadResponse(value, present) ==
    IF present THEN EncodeMessage(READ, <<value>>) ELSE EncodeNullResponse

EncodeReadExpiationResponse(expiration, expirationPresent) ==
    IF expirationPresent
    THEN EncodeMessage(READEXPIRATION, <<EncodeTime(expiration)>>)
    ELSE EncodeNullResponse

(* DecodeReadResponse and DecodeReadExpirationResponse, as the methods *)
(* Read and ReadExpiration of the Client use them                      *)
DecodeReadExpirationResponse(message) ==
    LET a == decodeCommand(READEXPIRATION, message)
    IN IF a.err \/ Len(a.arguments) # 1 THEN [time |-> ZeroTime, err |-> TRUE]
       ELSE DecodeTime(a.arguments[1])

(* The decoders and encoders of PRESENT, TRUNCATE, COUNT, KEYSBY,      *)
(* DELETEBY and EXPIREBY that Server.handleMessage and the Client call *)
(* are not in wire/WireProtocol.go as it stands; they follow the table *)
(* of argument shapes: PRESENT key; TRUNCATE and COUNT no argument;    *)
(* KEYSBY and DELETEBY prefix; EXPIREBY prefix and milliseconds; the   *)
(* responses COUNT n, DELETEBY n, EXPIREBY n with n in decimal, and    *)
(* KEYSBY with one argument for each key.                              *)
DecodeRequestSpecified(command, message) ==
    LET a == decodeCommand(command, message)
        failure == [arguments |-> <<>>, expiration |-> ZeroTime, err |-> TRUE]
    IN IF a.err THEN failure
       ELSE IF command \in {TRUNCATE, COUNT}
       THEN IF Len(a.arguments) # 0 THEN failure
            ELSE [arguments |-> <<>>, expiration |-> ZeroTime, err |-> FALSE]
       ELSE IF command \in {PRESENT, KEYSBY, DELETEBY}
       THEN IF Len(a.arguments) # 1 THEN failure
            ELSE [arguments |-> a.arguments, expiration |-> ZeroTime, err |-> FALSE]
       ELSE IF Len(a.arguments) # 2 THEN failure
            ELSE LET decodedTime == DecodeTime(a.arguments[2])
                 IN IF decodedTime.err THEN failure
                    ELSE [arguments |-> <<a.arguments[1]>>,
                          expiration |-> decodedTime.time, err |-> FALSE]

(* EncodeCountResponse, EncodeDeleteByResponse, EncodeExpireByResponse *)
EncodeNumberResponse(command, n) == EncodeMessage(command, <<FormatInt(n)>>)

(* DecodeCountResponse, DecodeDeleteByResponse, DecodeExpireByResponse *)
DecodeNumberResponse(command, message) ==
    LET a == decodeCommand(command, message)
    IN IF a.err \/ Len(a.arguments) # 1 THEN [n |-> 0, err |-> TRUE]
       ELSE ParseInt(a.arguments[1])

(* the keys of a set in a slice, in some order *)
RECURSIVE Slice(_)
Slice(keys) ==
    IF keys = {} THEN <<>>
    ELSE LET key == CHOOSE k \in keys : TRUE
         IN <<KeyBytes(key)>> \o Slice(keys \ {key})

EncodeKeysByResponse(keys) == EncodeMessage(KEYSBY, Slice(keys))

DecodeKeysByResponse(message) ==
    LET a == decodeCommand(KEYSBY, message)
    IN IF a.err THEN [keys |-> {}, err |-> TRUE]
       ELSE [keys |-> {KeyOf(a.arguments[i]) : i \in 1..Len(a.arguments)},
             err |-> FALSE]

Init ==
    /\ inMemoryStore = <<>>
    /\ keyIndex = NewPrefixTrie
    /\ now = 1
    /\ sweeps = 0
    /\ ret = NoResult
    /\ lock = "free"
    /\ pc = [c \in Clients |-> "idle"]
    /\ loc = [c \in Clients |-> NoLocals]
    /\ opsLeft = MaxOps
    /\ wire = NoMessage
    /\ server = New
    /\ connection = NoConnection

Next ==
    \/ \E key \in Keys : Read(key)
    \/ \E key \in Keys : ReadExpiration(key)
    \/ \E key \in Keys : Present(key)
    \/ \E key \in Keys, value \in Values : Insert(key, value)
    \/ \E key \in Keys, value \in Values : Update(key, value)
    \/ \E key \in Keys, value \in Values : Upsert(key, value)
    \/ \E key \in Keys : DeleteOp(key)
    \/ Count
    \/ Truncate
    \/ \E key \in Keys, expiration \in Expirations : Expire(key, expiration)
    \/ \E prefix \in Prefixes : KeysBy(prefix)
    \/ \E prefix \in Prefixes : DeleteBy(prefix)
    \/ \E prefix \in Prefixes, expiration \in Expirations : ExpireBy(prefix, expiration)
    \/ cleanupExpirations
    \/ Tick

Spec == Init /\ [][Next]_vars

TypeOK ==
    /\ DOMAIN inMemoryStore \subseteq Keys
    /\ now \in Times
    /\ sweeps \in 0..MaxSweeps

(***************************************************************************)
(* The engine under concurrent callers.  Each client goroutine runs one    *)
(* call at a time; a call is cut at every Lock and Unlock of               *)
(* internalStoreMutex.  pc[c] names the statement client c is executing:   *)
(* "X_read" and "X_write" are inside a Lock/Unlock pair, "Count_len" and   *)
(* "KeysBy_find" are the statements that touch the map or the trie         *)
(* outside any such pair.  The background sweep holds the lock as "sweep". *)
(***************************************************************************)
(* the key the concurrent callers contend for *)
ConcKeys == {<<"a", "b">>}

seqUnchanged == UNCHANGED <<ret, wire, server, connection>>

(* the statements that read or write ds.inMemoryStore or ds.keyIndex *)
AccessPcs ==
    {"Insert_read", "Insert_write", "Update_read", "Update_write",
     "Upsert_write", "Delete_read", "Delete_write", "Expire_read",
     "Expire_write", "KeysBy_read", "Count_len", "KeysBy_find"}

(* go ds.cleanupExpirations(); then ds.Read(key) up to its map read *)
ReadLocked(c, op, key, arg, exp, spawn) ==
    /\ pc[c] = "idle"
    /\ opsLeft > 0
    /\ lock = "free"
    /\ IF spawn THEN sweeps < MaxSweeps /\ sweeps' = sweeps + 1
                ELSE UNCHANGED sweeps
    /\ lock' = c
    /\ opsLeft' = opsLeft - 1
    /\ loc' = [loc EXCEPT ![c] =
                 [Call(op, key, arg, exp) EXCEPT
                     !.node = Lookup(inMemoryStore, key),
                     !.inMap = key \in DOMAIN inMemoryStore]]
    /\ pc' = [pc EXCEPT ![c] = op \o "_read"]
    /\ UNCHANGED <<inMemoryStore, keyIndex, now>>
    /\ seqUnchanged

(* what ds.Read returns once the lock is released and the clock is read *)
SawPresent(c) == loc[c].inMap /\ ~Expired(loc[c].node, now)

SawValue(c) == IF Expired(loc[c].node, now) THEN "" ELSE loc[c].node.value

Return(c, value, ok, keys, n) ==
    /\ pc' = [pc EXCEPT ![c] = "idle"]
    /\ loc' = [loc EXCEPT ![c] =
                 Locals(loc[c].op, loc[c].key, loc[c].arg, loc[c].exp, ZeroNode,
                        FALSE, value, ok, keys, n)]

Checked(c, ok) ==
    /\ pc' = [pc EXCEPT ![c] = loc[c].op \o "_checked"]
    /\ loc' = [loc EXCEPT ![c].node = ZeroNode, ![c].inMap = FALSE, ![c].ok = ok]

InsertBegin(c, key, value) == ReadLocked(c, "Insert", key, value, ZeroTime, TRUE)

InsertChecked(c) ==
    /\ pc[c] = "Insert_read"
    /\ lock' = "free"
    /\ IF ~SawPresent(c) THEN Checked(c, FALSE)
                         ELSE Return(c, SawValue(c), FALSE, {}, 0)
    /\ UNCHANGED <<inMemoryStore, keyIndex, now, sweeps, opsLeft>>
    /\ seqUnchanged

InsertWrite(c) ==
    /\ pc[c] = "Insert_checked"
    /\ lock = "free"
    /\ lock' = c
    /\ inMemoryStore' = MapSet(inMemoryStore, loc[c].key, NewNode(loc[c].arg))
    /\ keyIndex' = Add(keyIndex, loc[c].key)
    /\ pc' = [pc EXCEPT ![c] = "Insert_write"]
    /\ UNCHANGED <<now, sweeps, opsLeft, loc>>
    /\ seqUnchanged

InsertEnd(c) ==
    /\ pc[c] = "Insert_write"
    /\ lock' = "free"
    /\ Return(c, loc[c].arg, TRUE, {}, 0)
    /\ UNCHANGED <<inMemoryStore, keyIndex, now, sweeps, opsLeft>>
    /\ seqUnchanged

UpdateBegin(c, key, value) == ReadLocked(c, "Update", key, value, ZeroTime, TRUE)

UpdateChecked(c) ==
    /\ pc[c] = "Update_read"
    /\ lock' = "free"
    /\ IF SawPresent(c) THEN Checked(c, TRUE)
                        ELSE Return(c, "", FALSE, {}, 0)
    /\ UNCHANGED <<inMemoryStore, keyIndex, now, sweeps, opsLeft>>
    /\ seqUnchanged

UpdateWriteStep(c) ==
    /\ pc[c] = "Update_checked"
    /\ lock = "free"
    /\ lock' = c
    /\ inMemoryStore' = UpdateWrite(inMemoryStore, loc[c].key, loc[c].arg)
    /\ pc' = [pc EXCEPT ![c] = "Update_write"]
    /\ UNCHANGED <<keyIndex, now, sweeps, opsLeft, loc>>
    /\ seqUnchanged

UpdateEnd(c) ==
    /\ pc[c] = "Update_write"
    /\ lock' = "free"
    /\ Return(c, loc[c].arg, TRUE, {}, 0)
    /\ UNCHANGED <<inMemoryStore, keyIndex, now, sweeps, opsLeft>>
    /\ seqUnchanged

UpsertBegin(c, key, value) ==
    /\ pc[c] = "idle"
    /\ opsLeft > 0
    /\ lock = "free"
    /\ sweeps < MaxSweeps
    /\ sweeps' = sweeps + 1
    /\ lock' = c
    /\ opsLeft' = opsLeft - 1
    /\ inMemoryStore' = MapSet(inMemoryStore, key, NewNode(value))
    /\ keyIndex' = Add(keyIndex, key)
    /\ loc' = [loc EXCEPT ![c] = Call("Upsert", key, value, ZeroTime)]
    /\ pc' = [pc EXCEPT ![c] = "Upsert_write"]
    /\ UNCHANGED now
    /\ seqUnchanged

UpsertEnd(c) ==
    /\ pc[c] = "Upsert_write"
    /\ lock' = "free"
    /\ Return(c, loc[c].arg, TRUE, {}, 0)
    /\ UNCHANGED <<inMemoryStore, keyIndex, now, sweeps, opsLeft>>
    /\ seqUnchanged

DeleteBegin(c, key) == ReadLocked(c, "Delete", key, "", ZeroTime, TRUE)

DeleteChecked(c) ==
    /\ pc[c] = "Delete_read"
    /\ lock' = "free"
    /\ Checked(c, SawPresent(c))
    /\ UNCHANGED <<inMemoryStore, keyIndex, now, sweeps, opsLeft>>
    /\ seqUnchanged

DeleteWrite(c) ==
    /\ pc[c] = "Delete_checked"
    /\ lock = "free"
    /\ lock' = c
    /\ inMemoryStore' = MapDelete(inMemoryStore, {loc[c].key})
    /\ keyIndex' = Delete(keyIndex, loc[c].key)
    /\ pc' = [pc EXCEPT ![c] = "Delete_write"]
    /\ UNCHANGED <<now, sweeps, opsLeft, loc>>
    /\ seqUnchanged

DeleteEnd(c) ==
    /\ pc[c] = "Delete_write"
    /\ lock' = "free"
    /\ Return(c, "", loc[c].ok, {}, 0)
    /\ UNCHANGED <<inMemoryStore, keyIndex, now, sweeps, opsLeft>>
    /\ seqUnchanged

ExpireBegin(c, key, expiration) ==
    ReadLocked(c, "Expire", key, "", expiration, FALSE)

ExpireChecked(c) ==
    /\ pc[c] = "Expire_read"
    /\ lock' = "free"
    /\ IF SawPresent(c) THEN Checked(c, TRUE)
                        ELSE Return(c, "", FALSE, {}, 0)
    /\ UNCHANGED <<inMemoryStore, keyIndex, now, sweeps, opsLeft>>
    /\ seqUnchanged

ExpireWriteStep(c) ==
    /\ pc[c] = "Expire_checked"
    /\ lock = "free"
    /\ lock' = c
    /\ inMemoryStore' = ExpireWrite(inMemoryStore, loc[c].key, loc[c].exp)
    /\ pc' = [pc EXCEPT ![c] = "Expire_write"]
    /\ UNCHANGED <<keyIndex, now, sweeps, opsLeft, loc>>
    /\ seqUnchanged

ExpireEnd(c) ==
    /\ pc[c] = "Expire_write"
    /\ lock' = "free"
    /\ Return(c, "", TRUE, {}, 0)
    /\ UNCHANGED <<inMemoryStore, keyIndex, now, sweeps, opsLeft>>
    /\ seqUnchanged

(* Count: len(ds.inMemoryStore), with no Lock around it *)
CountBegin(c) ==
    /\ pc[c] = "idle"
    /\ opsLeft > 0
    /\ opsLeft' = opsLeft - 1
    /\ loc' = [loc EXCEPT ![c] = Call("Count", NoKey, "", ZeroTime)]
    /\ pc' = [pc EXCEPT ![c] = "Count_len"]
    /\ UNCHANGED <<inMemoryStore, keyIndex, now, sweeps, lock>>
    /\ seqUnchanged

CountEnd(c) ==
    /\ pc[c] = "Count_len"
    /\ Return(c, "", TRUE, {}, Cardinality(DOMAIN inMemoryStore))
    /\ UNCHANGED <<inMemoryStore, keyIndex, now, sweeps, lock, opsLeft>>
    /\ seqUnchanged

(* KeysBy: ds.keyIndex.Find(prefix), with no Lock around it, then one *)
(* ds.Present(key) for every key found                                *)
KeysByBegin(c, prefix) ==
    /\ pc[c] = "idle"
    /\ opsLeft > 0
    /\ opsLeft' = opsLeft - 1
    /\ loc' = [loc EXCEPT ![c] = Call("KeysBy", prefix, "", ZeroTime)]
    /\ pc' = [pc EXCEPT ![c] = "KeysBy_find"]
    /\ UNCHANGED <<inMemoryStore, keyIndex, now, sweeps, lock>>
    /\ seqUnchanged

(* allKeys is kept in loc[c].todo, unexpiredKeys grows in loc[c].keys *)
KeysByFound(c) ==
    /\ pc[c] = "KeysBy_find"
    /\ loc' = [loc EXCEPT ![c].todo = Find(keyIndex, loc[c].key)]
    /\ pc' = [pc EXCEPT ![c] = "KeysBy_loop"]
    /\ UNCHANGED <<inMemoryStore, keyIndex, now, sweeps, lock, opsLeft>>
    /\ seqUnchanged

(* ds.Present(key) for the next key of the range, up to its map read *)
KeysByRead(c) ==
    /\ pc[c] = "KeysBy_loop"
    /\ lock = "free"
    /\ \E key \in loc[c].todo :
          loc' = [loc EXCEPT ![c].cur = key,
                             ![c].node = Lookup(inMemoryStore, key),
                             ![c].inMap = key \in DOMAIN inMemoryStore]
    /\ lock' = c
    /\ pc' = [pc EXCEPT ![c] = "KeysBy_read"]
    /\ UNCHANGED <<inMemoryStore, keyIndex, now, sweeps, opsLeft>>
    /\ seqUnchanged

KeysByChecked(c) ==
    /\ pc[c] = "KeysBy_read"
    /\ lock' = "free"
    /\ loc' = [loc EXCEPT ![c].keys = IF SawPresent(c) THEN @ \cup {loc[c].cur} ELSE @,
                          ![c].todo = @ \ {loc[c].cur},
                          ![c].cur = NoKey,
                          ![c].node = ZeroNode,
                          ![c].inMap = FALSE]
    /\ pc' = [pc EXCEPT ![c] = "KeysBy_loop"]
    /\ UNCHANGED <<inMemoryStore, keyIndex, now, sweeps, opsLeft>>
    /\ seqUnchanged

KeysByEnd(c) ==
    /\ pc[c] = "KeysBy_loop"
    /\ loc[c].todo = {}
    /\ Return(c, "", TRUE, loc[c].keys, Cardinality(loc[c].keys))
    /\ UNCHANGED <<inMemoryStore, keyIndex, now, sweeps, lock, opsLeft>>
    /\ seqUnchanged

(* a pending cleanupExpirations goroutine takes the lock and sweeps *)
SweepBegin ==
    LET gone == ExpiredKeys(inMemoryStore, now)
    IN /\ sweeps > 0
       /\ lock = "free"
       /\ lock' = "sweep"
       /\ inMemoryStore' = MapDelete(inMemoryStore, gone)
       /\ keyIndex' \in DeleteEach(keyIndex, gone)
       /\ UNCHANGED <<now, sweeps, pc, loc, opsLeft>>
       /\ seqUnchanged

SweepEnd ==
    /\ lock = "sweep"
    /\ lock' = "free"
    /\ sweeps' = sweeps - 1
    /\ UNCHANGED <<inMemoryStore, keyIndex, now, pc, loc, opsLeft>>
    /\ seqUnchanged

NextConc ==
    \/ \E c \in Clients, key \in ConcKeys, value \in Values : InsertBegin(c, key, value)
    \/ \E c \in Clients : InsertChecked(c)
    \/ \E c \in Clients : InsertWrite(c)
    \/ \E c \in Clients : InsertEnd(c)
    \/ \E c \in Clients, key \in ConcKeys, value \in Values : UpdateBegin(c, key, value)
    \/ \E c \in Clients : UpdateChecked(c)
    \/ \E c \in Clients : UpdateWriteStep(c)
    \/ \E c \in Clients : UpdateEnd(c)
    \/ \E c \in Clients, key \in ConcKeys, value \in Values : UpsertBegin(c, key, value)
    \/ \E c \in Clients : UpsertEnd(c)
    \/ \E c \in Clients, key \in ConcKeys : DeleteBegin(c, key)
    \/ \E c \in Clients : DeleteChecked(c)
    \/ \E c \in Clients : DeleteWrite(c)
    \/ \E c \in Clients : DeleteEnd(c)
    \/ \E c \in Clients, key \in ConcKeys, expiration \in Expirations :
          ExpireBegin(c, key, expiration)
    \/ \E c \in Clients : ExpireChecked(c)
    \/ \E c \in Clients : ExpireWriteStep(c)
    \/ \E c \in Clients : ExpireEnd(c)
    \/ \E c \in Clients : CountBegin(c)
    \/ \E c \in Clients : CountEnd(c)
    \/ \E c \in Clients : KeysByBegin(c, <<"">>)
    \/ \E c \in Clients : KeysByFound(c)
    \/ \E c \in Clients : KeysByRead(c)
    \/ \E c \in Clients : KeysByChecked(c)
    \/ \E c \in Clients : KeysByEnd(c)
    \/ SweepBegin
    \/ SweepEnd
    \/ Tick

SpecConc == Init /\ [][NextConc]_vars

(***************************************************************************)
(* The PrefixTrie on its own, as its caller uses it: keyIndex is the trie, *)
(* ret the result of the last call, and the domain of inMemoryStore the    *)
(* caller's record of the keys it has added and not deleted since.         *)
(***************************************************************************)
TrieKeys == {<<"">>, <<"", "a">>, <<"a">>, <<"a", "b">>, <<"a", "b", "c">>, <<"b">>}

TriePrefixes == TrieKeys \cup {<<"c">>, <<"a", "">>}

(* key is the prefix itself or lies beneath it; the prefix "" covers all *)
Covers(prefix, key) == prefix = <<"">> \/ IsUnder(key, prefix)

TrieAdd(key) ==
    /\ keyIndex' = Add(keyIndex, key)
    /\ inMemoryStore' = MapSet(inMemoryStore, key, ZeroNode)
    /\ ret' = Result("Add", key, "", ZeroTime, "", ZeroTime, TRUE, {}, 0)
    /\ UNCHANGED <<now, sweeps>>
    /\ concUnchanged

TrieDelete(key) ==
    /\ keyIndex' = Delete(keyIndex, key)
    /\ inMemoryStore' = MapDelete(inMemoryStore, {key})
    /\ ret' = Result("Delete", key, "", ZeroTime, "", ZeroTime,
                     deleteKey(keyIndex, <<>>, key).any, {}, 0)
    /\ UNCHANGED <<now, sweeps>>
    /\ concUnchanged

TrieDeleteAll(prefix) ==
    /\ keyIndex' = DeleteAll(keyIndex, prefix)
    /\ inMemoryStore' = MapDelete(inMemoryStore,
                                  {key \in DOMAIN inMemoryStore : Covers(prefix, key)})
    /\ ret' = Result("DeleteAll", prefix, "", ZeroTime, "", ZeroTime,
                     deleteBranch(keyIndex, <<>>, prefix).any, {}, 0)
    /\ UNCHANGED <<now, sweeps>>
    /\ concUnchanged

TrieFind(prefix) ==
    /\ ret' = Result("Find", prefix, "", ZeroTime, "", ZeroTime, TRUE,
                     Find(keyIndex, prefix), 0)
    /\ UNCHANGED <<inMemoryStore, keyIndex, now, sweeps>>
    /\ concUnchanged

NextTrie ==
    \/ \E key \in TrieKeys : TrieAdd(key)
    \/ \E key \in TrieKeys : TrieDelete(key)
    \/ \E prefix \in TriePrefixes : TrieDeleteAll(prefix)
    \/ \E prefix \in TriePrefixes : TrieFind(prefix)

SpecTrie == Init /\ [][NextTrie]_vars

(***************************************************************************)
(* Every operation of the engine under concurrent callers, cut at Lock and *)
(* Unlock as above, with DeleteBy, Truncate and ExpireBy as well.  The     *)
(* callers use one key, one value and one expiration, and the clock        *)
(* stands: what is followed here is who holds internalStoreMutex.          *)
(***************************************************************************)
(* DeleteBy as it would be if its critical section called ds.Present, *)
(* which takes the mutex, for the keys it found                       *)
DeleteByCallChecking(c, prefix) ==
    \/ /\ pc[c] = "idle"
       /\ opsLeft > 0
       /\ lock = "free"
       /\ lock' = c
       /\ opsLeft' = opsLeft - 1
       /\ keyIndex' = DeleteAll(keyIndex, prefix)
       /\ inMemoryStore' = MapDelete(inMemoryStore, Find(keyIndex, prefix))
       /\ loc' = [loc EXCEPT ![c] =
                    [Call("DeleteBy", prefix, "", ZeroTime) EXCEPT
                        !.n = Cardinality(Find(keyIndex, prefix))]]
       /\ pc' = [pc EXCEPT ![c] = "DeleteBy_write"]
       /\ UNCHANGED <<now, sweeps>>
       /\ seqUnchanged
    \/ /\ pc[c] = "DeleteBy_write"
       /\ lock = "free"
       /\ lock' = "free"
       /\ Return(c, "", TRUE, {}, loc[c].n)
       /\ UNCHANGED <<inMemoryStore, keyIndex, now, sweeps, opsLeft>>
       /\ seqUnchanged

(* DeleteBy: Find, DeleteAll and the deletes in one critical section *)
DeleteByCall(c, prefix) ==
    \/ /\ pc[c] = "idle"
       /\ opsLeft > 0
       /\ lock = "free"
       /\ lock' = c
       /\ opsLeft' = opsLeft - 1
       /\ keyIndex' = DeleteAll(keyIndex, prefix)
       /\ inMemoryStore' = MapDelete(inMemoryStore, Find(keyIndex, prefix))
       /\ loc' = [loc EXCEPT ![c] =
                    [Call("DeleteBy", prefix, "", ZeroTime) EXCEPT
                        !.n = Cardinality(Find(keyIndex, prefix))]]
       /\ pc' = [pc EXCEPT ![c] = "DeleteBy_write"]
       /\ UNCHANGED <<now, sweeps>>
       /\ seqUnchanged
    \/ /\ pc[c] = "DeleteBy_write"
       /\ lock' = "free"
       /\ Return(c, "", TRUE, {}, loc[c].n)
       /\ UNCHANGED <<inMemoryStore, keyIndex, now, sweeps, opsLeft>>
       /\ seqUnchanged

(* Truncate: the map is replaced in one critical section *)
TruncateCall(c) ==
    \/ /\ pc[c] = "idle"
       /\ opsLeft > 0
       /\ lock = "free"
       /\ lock' = c
       /\ opsLeft' = opsLeft - 1
       /\ inMemoryStore' = <<>>
       /\ loc' = [loc EXCEPT ![c] = Call("Truncate", NoKey, "", ZeroTime)]
       /\ pc' = [pc EXCEPT ![c] = "Truncate_write"]
       /\ UNCHANGED <<keyIndex, now, sweeps>>
       /\ seqUnchanged
    \/ /\ pc[c] = "Truncate_write"
       /\ lock' = "free"
       /\ Return(c, "", TRUE, {}, 0)
       /\ UNCHANGED <<inMemoryStore, keyIndex, now, sweeps, opsLeft>>
       /\ seqUnchanged

(* ExpireBy: ds.KeysBy(prefix), which is Find with no Lock around it and *)
(* one ds.Present for every key found, then one ds.Expire for every key  *)
(* kept, which is ds.Present again and the write if the key is present.  *)
(* allKeys, then keysToExpire, is loc[c].todo.                           *)
ExpireByCall(c, prefix, expiration) ==
    \/ /\ pc[c] = "idle"
       /\ opsLeft > 0
       /\ opsLeft' = opsLeft - 1
       /\ loc' = [loc EXCEPT ![c] = Call("ExpireBy", prefix, "", expiration)]
       /\ pc' = [pc EXCEPT ![c] = "ExpireBy_find"]
       /\ UNCHANGED <<inMemoryStore, keyIndex, now, sweeps, lock>>
       /\ seqUnchanged
    \/ /\ pc[c] = "ExpireBy_find"
       /\ loc' = [loc EXCEPT ![c].todo = Find(keyIndex, loc[c].key)]
       /\ pc' = [pc EXCEPT ![c] = "ExpireBy_loop"]
       /\ UNCHANGED <<inMemoryStore, keyIndex, now, sweeps, lock, opsLeft>>
       /\ seqUnchanged
    \/ /\ pc[c] \in {"ExpireBy_loop", "ExpireBy_range"}
       /\ lock = "free"
       /\ \E key \in loc[c].todo :
             loc' = [loc EXCEPT ![c].cur = key,
                                ![c].node = Lookup(inMemoryStore, key),
                                ![c].inMap = key \in DOMAIN inMemoryStore]
       /\ lock' = c
       /\ pc' = [pc EXCEPT ![c] = IF pc[c] = "ExpireBy_loop" THEN "ExpireBy_read"
                                  ELSE "ExpireBy_present"]
       /\ UNCHANGED <<inMemoryStore, keyIndex, now, sweeps, opsLeft>>
       /\ seqUnchanged
    \/ /\ pc[c] = "ExpireBy_read"
       /\ lock' = "free"
       /\ loc' = [loc EXCEPT ![c].keys = IF SawPresent(c) THEN @ \cup {loc[c].cur} ELSE @,
                             ![c].todo = @ \ {loc[c].cur},
                             ![c].cur = NoKey,
                             ![c].node = ZeroNode,
                             ![c].inMap = FALSE]
       /\ pc' = [pc EXCEPT ![c] = "ExpireBy_loop"]
       /\ UNCHANGED <<inMemoryStore, keyIndex, now, sweeps, opsLeft>>
       /\ seqUnchanged
    \/ /\ pc[c] = "ExpireBy_loop"
       /\ loc[c].todo = {}
       /\ loc' = [loc EXCEPT ![c].todo = loc[c].keys,
                             ![c].n = Cardinality(loc[c].keys)]
       /\ pc' = [pc EXCEPT ![c] = "ExpireBy_range"]
       /\ UNCHANGED <<inMemoryStore, keyIndex, now, sweeps, lock, opsLeft>>
       /\ seqUnchanged
    \/ /\ pc[c] = "ExpireBy_present"
       /\ lock' = "free"
       /\ IF SawPresent(c)
          THEN /\ loc' = [loc EXCEPT ![c].node = ZeroNode, ![c].inMap = FALSE]
               /\ pc' = [pc EXCEPT ![c] = "ExpireBy_checked"]
          ELSE /\ loc' = [loc EXCEPT ![c].todo = @ \ {loc[c].cur},
                                     ![c].cur = NoKey,
                                     ![c].node = ZeroNode,
                                     ![c].inMap = FALSE]
               /\ pc' = [pc EXCEPT ![c] = "ExpireBy_range"]
       /\ UNCHANGED <<inMemoryStore, keyIndex, now, sweeps, opsLeft>>
       /\ seqUnchanged
    \/ /\ pc[c] = "ExpireBy_checked"
       /\ lock = "free"
       /\ lock' = c
       /\ inMemoryStore' = ExpireWrite(inMemoryStore, loc[c].cur, loc[c].exp)
       /\ pc' = [pc EXCEPT ![c] = "ExpireBy_write"]
       /\ UNCHANGED <<keyIndex, now, sweeps, opsLeft, loc>>
       /\ seqUnchanged
    \/ /\ pc[c] = "ExpireBy_write"
       /\ lock' = "free"
       /\ loc' = [loc EXCEPT ![c].todo = @ \ {loc[c].cur}, ![c].cur = NoKey]
       /\ pc' = [pc EXCEPT ![c] = "ExpireBy_range"]
       /\ UNCHANGED <<inMemoryStore, keyIndex, now, sweeps, opsLeft>>
       /\ seqUnchanged
    \/ /\ pc[c] = "ExpireBy_range"
       /\ loc[c].todo = {}
       /\ Return(c, "", TRUE, loc[c].keys, loc[c].n)
       /\ UNCHANGED <<inMemoryStore, keyIndex, now, sweeps, lock, opsLeft>>
       /\ seqUnchanged

LockKeys == {<<"a", "b">>}

LockPrefixes == {<<"a">>}

LockValues == {"v1"}

LockExpirations == {MaxTime - 1}

(* the goroutine of caller c takes its next step, whichever call it is in *)
Proceed(c) ==
    \/ InsertChecked(c) \/ InsertWrite(c) \/ InsertEnd(c)
    \/ UpdateChecked(c) \/ UpdateWriteStep(c) \/ UpdateEnd(c)
    \/ UpsertEnd(c)
    \/ DeleteChecked(c) \/ DeleteWrite(c) \/ DeleteEnd(c)
    \/ ExpireChecked(c) \/ ExpireWriteStep(c) \/ ExpireEnd(c)
    \/ CountEnd(c)
    \/ KeysByFound(c) \/ KeysByRead(c) \/ KeysByChecked(c) \/ KeysByEnd(c)
    \/ /\ pc[c] # "idle"
       /\ \E prefix \in LockPrefixes : DeleteByCall(c, prefix)
    \/ /\ pc[c] # "idle"
       /\ TruncateCall(c)
    \/ /\ pc[c] # "idle"
       /\ \E prefix \in LockPrefixes, expiration \in LockExpirations :
             ExpireByCall(c, prefix, expiration)

NextLock ==
    \/ \E c \in Clients, key \in LockKeys, value \in LockValues :
          \/ InsertBegin(c, key, value)
          \/ UpdateBegin(c, key, value)
          \/ UpsertBegin(c, key, value)
    \/ \E c \in Clients, key \in LockKeys : DeleteBegin(c, key)
    \/ \E c \in Clients, key \in LockKeys, expiration \in LockExpirations :
          ExpireBegin(c, key, expiration)
    \/ \E c \in Clients : CountBegin(c)
    \/ \E c \in Clients, prefix \in LockPrefixes : KeysByBegin(c, prefix)
    \/ \E c \in Clients, prefix \in LockPrefixes :
          pc[c] = "idle" /\ DeleteByCall(c, prefix)
    \/ \E c \in Clients : pc[c] = "idle" /\ TruncateCall(c)
    \/ \E c \in Clients, prefix \in LockPrefixes, expiration \in LockExpirations :
          pc[c] = "idle" /\ ExpireByCall(c, prefix, expiration)
    \/ \E c \in Clients : Proceed(c)
    \/ SweepBegin
    \/ SweepEnd

(* every goroutine that can take a step eventually takes one *)
SpecLock ==
    /\ Init
    /\ [][NextLock]_vars
    /\ \A c \in Clients : WF_vars(Proceed(c))
    /\ WF_vars(SweepBegin)
    /\ WF_vars(SweepEnd)

(***************************************************************************)
(* The engine run one call at a time on a store whose keys include the     *)
(* empty key "", which Add files under the root's child labelled "" while  *)
(* the root itself carries the value "".  A launched sweep goroutine is    *)
(* eventually scheduled: nothing holds internalStoreMutex for ever, so     *)
(* in SpecEmptyKeyFair cleanupExpirations is weakly fair.                  *)
(***************************************************************************)
EmptyKeys == {<<"">>, <<"a">>}

NextEmptyKey ==
    \/ \E key \in EmptyKeys, value \in Values : Insert(key, value)
    \/ \E key \in EmptyKeys, value \in Values : Update(key, value)
    \/ \E key \in EmptyKeys, value \in Values : Upsert(key, value)
    \/ \E key \in EmptyKeys : DeleteOp(key)
    \/ \E key \in EmptyKeys, expiration \in Expirations : Expire(key, expiration)
    \/ cleanupExpirations
    \/ Tick

SpecEmptyKey == Init /\ [][NextEmptyKey]_vars

SpecEmptyKeyFair == SpecEmptyKey /\ WF_vars(cleanupExpirations)

(***************************************************************************)
(* The codec at work on one message: one side encodes a command with its   *)
(* arguments, the other side reads the command off the bytes with          *)
(* DecipherCommand and the arguments with decodeCommand, as the Decode     *)
(* functions of every command do.                                          *)
(***************************************************************************)
(* the bytes arguments are made of: a letter and the separator *)
ArgBytes == {65, messageSeparatorBinary}

Strings == UNION {[1..n -> ArgBytes] : n \in 0..MaxArgLen}

ParamLists == UNION {[1..n -> Strings] : n \in 0..MaxArgs}

engineUnchanged ==
    UNCHANGED <<inMemoryStore, keyIndex, now, sweeps, ret, lock, pc, loc, opsLeft,
                server, connection>>

Encode(command, params) ==
    /\ wire.step = "none"
    /\ wire' = Message("encoded", command, params, EncodeMessage(command, params),
                       <<>>, <<>>, FALSE)
    /\ engineUnchanged

Decode ==
    LET c == DecipherCommand(wire.message)
        a == IF c.err THEN [arguments |-> <<>>, err |-> TRUE]
             ELSE decodeCommand(c.command, wire.message)
    IN /\ wire.step = "encoded"
       /\ wire' = [wire EXCEPT !.step = "decoded",
                               !.gotCommand = c.command,
                               !.gotArguments = a.arguments,
                               !.err = c.err \/ a.err]
       /\ engineUnchanged

(* the bytes the tests append to a message: a separator, and a letter *)
AppendedBytes == {messageSeparatorBinary, 70}

(* the commands whose request decoder is at hand *)
ShapedCommands == KeyCommands \cup KeyValueCommands \cup {EXPIRE}

(* the index, in the message of command and params, of the separator *)
(* that opens argument i                                             *)
RECURSIVE argumentOffset(_, _, _)
argumentOffset(command, params, i) ==
    IF i = 1 THEN 5 + Len(command)
    ELSE argumentOffset(command, params, i - 1) + 6 + Len(params[i - 1])

(* commandBytes = append(commandBytes, b) *)
AppendByte(b) ==
    /\ wire.step = "encoded"
    /\ wire.command \in ShapedCommands
    /\ wire' = [wire EXCEPT !.step = "tampered", !.message = Append(@, b)]
    /\ engineUnchanged

(* the message without its last byte *)
DropLastByte ==
    /\ wire.step = "encoded"
    /\ wire.command \in ShapedCommands
    /\ wire' = [wire EXCEPT !.step = "tampered",
                            !.message = SubSeq(@, 1, Len(@) - 1)]
    /\ engineUnchanged

(* the length declared for argument i made excess bytes longer than *)
(* what is left of the message                                      *)
Oversize(i, excess) ==
    /\ wire.step = "encoded"
    /\ wire.command \in ShapedCommands
    /\ i \in 1..Len(wire.params)
    /\ LET offset == argumentOffset(wire.command, wire.params, i)
           size == Len(wire.message) - (offset + 6) + excess
       IN wire' = [wire EXCEPT
                      !.step = "tampered",
                      !.message = SubSeq(@, 1, offset + 1) \o PutUint32(size)
                                      \o SubSeq(@, offset + 6, Len(@))]
    /\ engineUnchanged

(* the indexes of a request where its layout has the four bytes of the *)
(* message size, the separator after them, and the two separators of   *)
(* each argument                                                        *)
LayoutIndexes(command, params) ==
    0..4 \cup UNION {{argumentOffset(command, params, i),
                      argumentOffset(command, params, i) + 5} : i \in 1..Len(params)}

(* the bytes written over a byte of the layout: a zero, and a letter *)
OverwritingBytes == {0, 65}

(* message[i] = b on a request that carries the arguments its command *)
(* takes                                                               *)
Overwrite(i, b) ==
    /\ wire.step = "encoded"
    /\ wire.command \in ShapedCommands
    /\ Len(wire.params) = (IF wire.command \in KeyCommands THEN 1 ELSE 2)
    /\ i \in LayoutIndexes(wire.command, wire.params)
    /\ wire.message[i + 1] # b
    /\ wire' = [wire EXCEPT !.step = "tampered", !.message[i + 1] = b]
    /\ engineUnchanged

(* the Decode function of the command applied to the message as it is *)
DecodeArguments ==
    LET a == DecodeRequest(wire.command, wire.message)
    IN /\ wire.step \in {"encoded", "tampered"}
       /\ wire.command \in ShapedCommands
       /\ wire' = [wire EXCEPT !.step = "shaped",
                               !.gotCommand = wire.command,
                               !.gotArguments = a.arguments,
                               !.err = a.err]
       /\ engineUnchanged

(* Requests of any kind: up to five leading bytes, then a command token, *)
(* a token cut short, a token with a letter more, or nothing, then the  *)
(* end of the request, a separator, or a separator and a letter.        *)
Headers == UNION {[1..n -> {0, messageSeparatorBinary}] : n \in 0..5}

Tokens ==
    ValidCommands \cup {SubSeq(c, 1, Len(c) - 1) : c \in ValidCommands}
        \cup {Append(c, 65) : c \in ValidCommands}

Trailers == {<<>>, <<messageSeparatorBinary>>, <<messageSeparatorBinary, 65>>}

(* DecipherCommand applied to a request *)
Decipher(request) ==
    LET c == DecipherCommand(request)
    IN /\ wire.step = "none"
       /\ wire' = Message("deciphered", <<>>, <<>>, request, c.command, <<>>, c.err)
       /\ engineUnchanged

(* a response built by the encoder of its own: NULL, ACK, or ERR with *)
(* the text of an error                                               *)
EncodeResponse(command, params) ==
    /\ wire.step = "none"
    /\ \/ command = NULL /\ params = <<>>
       \/ command = ACK /\ params = <<>>
       \/ command = ERR /\ Len(params) = 1
    /\ wire' = Message("response", command, params,
                       IF command = NULL THEN EncodeNullResponse
                       ELSE IF command = ACK THEN EncodeAckResponse
                       ELSE EncodeErrResponse(params[1]),
                       <<>>, <<>>, FALSE)
    /\ engineUnchanged

(* the receiver of an ERR response reads the error off it *)
DecodeErr ==
    LET e == DecodeError(wire.message)
    IN /\ wire.step = "response"
       /\ wire.command = ERR
       /\ wire' = [wire EXCEPT !.step = "errorDecoded",
                               !.gotCommand = ERR,
                               !.gotArguments = e.arguments,
                               !.err = e.err]
       /\ engineUnchanged

NextWire ==
    \/ /\ wire.step = "none"
       /\ \E command \in ValidCommands, params \in ParamLists :
             Encode(command, params)
    \/ /\ wire.step = "none"
       /\ \E command \in {NULL, ACK, ERR}, params \in ParamLists :
             EncodeResponse(command, params)
    \/ DecodeErr
    \/ /\ wire.step = "none"
       /\ \E header \in Headers, token \in Tokens, trailer \in Trailers :
             Decipher(header \o token \o trailer)
    \/ Decode
    \/ \E b \in AppendedBytes : AppendByte(b)
    \/ DropLastByte
    \/ \E i \in 1..MaxArgs, excess \in 1..MaxArgLen : Oversize(i, excess)
    \/ \E i \in LayoutIndexes(wire.command, wire.params), b \in OverwritingBytes :
          Overwrite(i, b)
    \/ DecodeArguments

SpecWire == Init /\ [][NextWire]_vars

(***************************************************************************)
(* The server at work.  A client dials, writes its request and waits; the  *)
(* goroutine of listenForConnections accepts the connection and starts     *)
(* handleConnection, which reads one message, decodes it, calls the engine *)
(* (one of the engine's actions above), writes the response and closes.    *)
(* One connection is followed at a time.  ret is what the engine returned  *)
(* to the handler: nothing (NoResult) until the call is made.  A sweep     *)
(* runs while the handler is not between its decoding and the client's     *)
(* reading of the response; the steps of that stretch other than the call  *)
(* do not touch the store.                                                 *)
(***************************************************************************)
ServerKeys == {<<"a">>}

ServerPrefixes == {<<"a">>, <<"">>}

ServerValues == {"v1", ""}

KeyOps == {"Read", "ReadExpiration", "Delete", "Present"}

KeyValueOps == {"Insert", "Update", "Upsert"}

ClientCalls ==
    {ClientCall(op, key, "", ZeroTime) : op \in KeyOps, key \in ServerKeys}
        \cup {ClientCall(op, key, value, ZeroTime) :
                 op \in KeyValueOps, key \in ServerKeys, value \in ServerValues}
        \cup {ClientCall("Expire", key, "", expiration) :
                 key \in ServerKeys, expiration \in Expirations}
        \cup {ClientCall(op, NoKey, "", ZeroTime) : op \in {"Truncate", "Count"}}
        \cup {ClientCall(op, prefix, "", ZeroTime) :
                 op \in {"KeysBy", "DeleteBy"}, prefix \in ServerPrefixes}
        \cup {ClientCall("ExpireBy", prefix, "", expiration) :
                 prefix \in ServerPrefixes, expiration \in Expirations}

(* the command of each method of the Client *)
OpCommand(op) ==
    CASE op = "Read" -> READ
      [] op = "ReadExpiration" -> READEXPIRATION
      [] op = "Insert" -> INSERT
      [] op = "Update" -> UPDATE
      [] op = "Upsert" -> UPSERT
      [] op = "Delete" -> DELETE
      [] op = "Present" -> PRESENT
      [] op = "Expire" -> EXPIRE
      [] op = "Truncate" -> TRUNCATE
      [] op = "Count" -> COUNT
      [] op = "KeysBy" -> KEYSBY
      [] op = "DeleteBy" -> DELETEBY
      [] op = "ExpireBy" -> EXPIREBY

(* the message a method of the Client encodes *)
ClientRequest(call) ==
    EncodeMessage(
        OpCommand(call.op),
        IF call.op \in {"Truncate", "Count"} THEN <<>>
        ELSE IF call.op \in KeyValueOps
        THEN <<KeyBytes(call.key), Bytes(call.value)>>
        ELSE IF call.op \in {"Expire", "ExpireBy"}
        THEN <<KeyBytes(call.key), EncodeTime(call.expiration)>>
        ELSE <<KeyBytes(call.key)>>)

(* a message with the length of its bytes in front, whatever the bytes *)
Framed(bytes) == PutUint32(Len(bytes) + 4) \o bytes

(* Bytes that no method of the Client writes: an unknown command, wrong *)
(* numbers of arguments, an argument whose declared length is too long, *)
(* a byte after the last argument, a timestamp that is not a number, a  *)
(* response command, two messages in a row, a message cut short, fewer  *)
(* than four bytes, none at all, and a length of zero.                  *)
RawRequests ==
    LET a == KeyBytes(<<"a">>)
        v == Bytes("v1")
        insert == EncodeMessage(INSERT, <<a, v>>)
        read == EncodeMessage(READ, <<a>>)
    IN {EncodeMessage(<<88>>, <<a>>),
        EncodeMessage(READ, <<>>),
        EncodeMessage(INSERT, <<a>>),
        EncodeMessage(TRUNCATE, <<a>>),
        EncodeMessage(EXPIRE, <<a>>),
        Framed(<<messageSeparatorBinary>> \o READ \o <<messageSeparatorBinary>>
                   \o PutUint32(2) \o <<messageSeparatorBinary>> \o a),
        Framed(SubSeq(read, 5, Len(read)) \o <<messageSeparatorBinary>>),
        EncodeMessage(EXPIRE, <<a, v>>),
        EncodeMessage(EXPIREBY, <<a, v>>),
        EncodeMessage(ACK, <<>>),
        insert \o EncodeMessage(DELETE, <<a>>),
        SubSeq(insert, 1, Len(insert) - 1),
        <<9, 0, 0>>,
        <<>>,
        <<0, 0, 0, 0>>}

(* no connection is under way *)
Free == connection.step \in {"idle", "returned"}

(* the process is running: no goroutine has panicked *)
Running == ~server.panicked

serverUnchanged ==
    UNCHANGED <<inMemoryStore, keyIndex, now, sweeps, ret, lock, pc, loc, opsLeft,
                wire>>

(* Start: net.Listen succeeds, the loop is started *)
Start ==
    /\ server.listener = "none"
    /\ server' = [server EXCEPT !.started = TRUE, !.stopped = FALSE,
                                !.listener = "open", !.loop = "accept"]
    /\ UNCHANGED connection
    /\ serverUnchanged

(* connectAndSendMessage up to connection.Write: net.Dial fails when no *)
(* listener is open                                                     *)
Dial(call, input) ==
    /\ Free
    /\ Running
    /\ sweeps < MaxSweeps
    /\ connection' =
           IF server.listener = "open"
           THEN [NoConnection EXCEPT !.step = "dialled", !.call = call,
                                     !.input = input]
           ELSE [NoConnection EXCEPT !.step = "returned", !.call = call,
                                     !.reply = Reply(FALSE, "", ZeroTime, 0, {},
                                                     "transport")]
    /\ ret' = NoResult
    /\ UNCHANGED <<server, inMemoryStore, keyIndex, now, sweeps, lock, pc, loc,
                   opsLeft, wire>>

ClientSend(call) == Dial(call, ClientRequest(call))

RawSend(input) == Dial(NoCall, input)

(* One turn of the loop of listenForConnections: Accept returns the     *)
(* client's connection or the one Stop dialled.  With started false the *)
(* loop breaks, and the deferred function closes the listener and sets  *)
(* stopped; a client's connection accepted on that turn is left as it   *)
(* is.  Otherwise handleConnection is started on the connection.        *)
Accept ==
    /\ Running
    /\ server.loop = "accept"
    /\ \/ /\ connection.step = "dialled"
          /\ IF ~server.started
             THEN /\ server' = [server EXCEPT !.loop = "exited",
                                              !.listener = "closed",
                                              !.stopped = TRUE]
                  /\ connection' = [connection EXCEPT !.step = "dropped"]
             ELSE /\ connection' = [connection EXCEPT !.step = "accepted"]
                  /\ UNCHANGED server
       \/ /\ server.wake
          /\ server' = [server EXCEPT !.loop = "exited", !.listener = "closed",
                                      !.stopped = TRUE, !.wake = FALSE]
          /\ UNCHANGED connection
    /\ serverUnchanged

(* the text of the error handed to sendErrorResponse, by its origin *)
ErrorText(failed) == IF failed = "read" THEN <<69, 79, 70>> ELSE <<63>>

(* sendErrorResponse, then the deferred connection.Close.  When the     *)
(* write succeeds writeErr is nil and writeErr.Error() panics: no one   *)
(* recovers, the process ends and the store, which lives in its memory, *)
(* is lost.                                                             *)
sendErrorResponse(failed, message) ==
    \E writeErr \in BOOLEAN :
        /\ connection' =
               [connection EXCEPT
                   !.step = "closed", !.failed = failed, !.writeErr = writeErr,
                   !.message = message,
                   !.output = IF writeErr THEN <<>>
                              ELSE EncodeErrResponse(ErrorText(failed)),
                   !.frames = IF writeErr THEN 0 ELSE 1]
        /\ IF writeErr
           THEN UNCHANGED <<server, inMemoryStore, keyIndex, sweeps>>
           ELSE /\ server' = [server EXCEPT !.panicked = TRUE]
                /\ inMemoryStore' = <<>>
                /\ keyIndex' = NewPrefixTrie
                /\ sweeps' = 0
        /\ UNCHANGED <<now, ret, lock, pc, loc, opsLeft, wire>>

(* the Decode call of each case of handleMessage; ACK, NULL and ERR *)
(* fall to the default case                                         *)
DecodeCase(command, message) ==
    IF command \in ShapedCommands THEN DecodeRequest(command, message)
    ELSE IF command \in {PRESENT, TRUNCATE, COUNT, KEYSBY, DELETEBY, EXPIREBY}
    THEN DecodeRequestSpecified(command, message)
    ELSE [arguments |-> <<>>, expiration |-> ZeroTime, err |-> TRUE]

(* handleConnection from Peek to the Decode call of handleMessage: the  *)
(* message is the bytes the first four bytes count, those four          *)
(* included.  With fewer bytes than that on the connection the read     *)
(* ends with an error, at the deadline if not before.                   *)
HandleRead ==
    LET input == connection.input
        messageSize == Uint32(SubSeq(input, 1, 4))
    IN /\ Running
       /\ connection.step = "accepted"
       /\ IF Len(input) < 4 \/ Len(input) < messageSize
          THEN sendErrorResponse("read", <<>>)
          ELSE \E message \in {SubSeq(input, 1, messageSize)} :
               \E c \in {DecipherCommand(message)} :
               \E a \in {DecodeCase(c.command, message)} :
                  IF c.err \/ a.err
                  THEN sendErrorResponse("decode", message)
                  ELSE /\ connection' =
                              [connection EXCEPT !.step = "decoded",
                                                 !.message = message,
                                                 !.command = c.command,
                                                 !.arguments = a.arguments,
                                                 !.expiration = a.expiration]
                       /\ ret' = NoResult
                       /\ UNCHANGED <<server, inMemoryStore, keyIndex, now, sweeps,
                                      lock, pc, loc, opsLeft, wire>>

(* the call of the engine in the case of handleMessage that the command *)
(* selects, with the arguments decoded                                  *)
HandleCall ==
    LET command == connection.command
        key == KeyOf(connection.arguments[1])
        value == ValueOf(connection.arguments[2])
        expiration == connection.expiration
    IN /\ Running
       /\ connection.step = "decoded"
       /\ ret.op = "none"
       /\ \/ command = READ /\ Read(key)
          \/ command = INSERT /\ Insert(key, value)
          \/ command = READEXPIRATION /\ ReadExpiration(key)
          \/ command = EXPIRE /\ Expire(key, expiration)
          \/ command = UPDATE /\ Update(key, value)
          \/ command = DELETE /\ DeleteOp(key)
          \/ command = UPSERT /\ Upsert(key, value)
          \/ command = PRESENT /\ Present(key)
          \/ command = TRUNCATE /\ Truncate
          \/ command = COUNT /\ Count
          \/ command = KEYSBY /\ KeysBy(key)
          \/ command = DELETEBY /\ DeleteBy(key)
          \/ command = EXPIREBY /\ ExpireBy(key, expiration)

(* faulty variant: ACK whatever the engine returned *)
ResponseAcking(command, r) ==
    IF command = READ THEN EncodeReadResponse(Bytes(r.value), r.ok)
    ELSE IF command = READEXPIRATION
    THEN EncodeReadExpiationResponse(r.expiration, r.ok)
    ELSE IF command \in {COUNT, DELETEBY, EXPIREBY}
    THEN EncodeNumberResponse(command, r.n)
    ELSE IF command = KEYSBY THEN EncodeKeysByResponse(r.keys)
    ELSE EncodeAckResponse

(* the response the case of handleMessage encodes from what the engine *)
(* returned                                                            *)
Response(command, r) ==
    IF command = READ THEN EncodeReadResponse(Bytes(r.value), r.ok)
    ELSE IF command = READEXPIRATION
    THEN EncodeReadExpiationResponse(r.expiration, r.ok)
    ELSE IF command = TRUNCATE THEN EncodeAckResponse
    ELSE IF command \in {COUNT, DELETEBY, EXPIREBY}
    THEN EncodeNumberResponse(command, r.n)
    ELSE IF command = KEYSBY THEN EncodeKeysByResponse(r.keys)
    ELSE encodeAckOrNullResponse(r.ok)

(* faulty variant: the handler goes on to the bytes after the message *)
HandleWriteKeepAlive ==
    LET rest == SubSeq(connection.input, Len(connection.message) + 1,
                       Len(connection.input))
    IN /\ Running
       /\ connection.step = "decoded"
       /\ ret.op # "none"
       /\ connection' =
              [connection EXCEPT
                  !.step = IF rest = <<>> THEN "closed" ELSE "accepted",
                  !.input = IF rest = <<>> THEN connection.input ELSE rest,
                  !.output = Response(connection.command, ret),
                  !.frames = connection.frames + 1]
       /\ ret' = IF rest = <<>> THEN ret ELSE NoResult
       /\ UNCHANGED <<server, inMemoryStore, keyIndex, now, sweeps, lock, pc, loc,
                      opsLeft, wire>>

(* handleConnection from the return of handleMessage on: the response *)
(* is written, which may fail, and the connection is closed           *)
HandleWrite ==
    /\ Running
    /\ connection.step = "decoded"
    /\ ret.op # "none"
    /\ \E writeErr \in BOOLEAN :
          connection' =
              [connection EXCEPT
                  !.step = "closed", !.writeErr = writeErr,
                  !.output = IF writeErr THEN <<>>
                             ELSE Response(connection.command, ret),
                  !.frames = IF writeErr THEN 0 ELSE 1]
    /\ UNCHANGED server
    /\ serverUnchanged

(* what a method of the Client returns for the response it read *)
ClientReply(call, responseCommand, responseMessage) ==
    LET failure(err) == Reply(FALSE, "", ZeroTime, 0, {}, err)
    IN IF responseCommand = ERR THEN failure("ERR")
       ELSE IF call.op = "Read"
       THEN IF responseCommand = NULL THEN NoReply
            ELSE IF responseCommand = READ
            THEN LET value == decodeKeyCommand(READ, responseMessage)
                 IN IF value.err THEN failure("protocol")
                    ELSE Reply(TRUE, ValueOf(value.arguments[1]), ZeroTime, 0, {},
                               "none")
            ELSE failure("protocol")
       ELSE IF call.op = "ReadExpiration"
       THEN IF responseCommand = NULL THEN NoReply
            ELSE IF responseCommand = READEXPIRATION
            THEN LET value == DecodeReadExpirationResponse(responseMessage)
                 IN IF value.err THEN failure("protocol")
                    ELSE Reply(TRUE, "", value.time, 0, {}, "none")
            ELSE failure("protocol")
       ELSE IF call.op \in {"Count", "DeleteBy", "ExpireBy"}
       THEN IF responseCommand = OpCommand(call.op)
            THEN LET value == DecodeNumberResponse(responseCommand, responseMessage)
                 IN IF value.err THEN failure("protocol")
                    ELSE Reply(FALSE, "", ZeroTime, value.n, {}, "none")
            ELSE failure("protocol")
       ELSE IF call.op = "KeysBy"
       THEN IF responseCommand = KEYSBY
            THEN LET value == DecodeKeysByResponse(responseMessage)
                 IN IF value.err THEN failure("protocol")
                    ELSE Reply(FALSE, "", ZeroTime, 0, value.keys, "none")
            ELSE failure("protocol")
       ELSE IF responseCommand = NULL THEN NoReply
       ELSE IF responseCommand = ACK THEN Reply(TRUE, "", ZeroTime, 0, {}, "none")
       ELSE failure("protocol")

(* connectAndSendMessage from Peek on, and the method's switch on the   *)
(* response command.  The read ends with an error when the server has   *)
(* closed the connection without a response, and at the deadline when   *)
(* the server never handled the connection.                             *)
ClientReceive ==
    LET output == connection.output
        messageSize == Uint32(SubSeq(output, 1, 4))
        responseMessage == SubSeq(output, 1, messageSize)
        c == DecipherCommand(responseMessage)
        failure(err) == Reply(FALSE, "", ZeroTime, 0, {}, err)
    IN /\ connection.step \in {"closed", "dropped"}
       /\ connection' =
              [connection EXCEPT
                  !.step = "returned",
                  !.reply =
                      IF connection.call = NoCall THEN NoReply
                      ELSE IF Len(output) < 4 \/ Len(output) < messageSize
                      THEN failure("transport")
                      ELSE IF c.err THEN failure("protocol")
                      ELSE ClientReply(connection.call, c.command, responseMessage)]
       /\ UNCHANGED server
       /\ serverUnchanged

(* Stop, first statement: s.started = false *)
StopFlag ==
    /\ Running
    /\ server.stop = "idle"
    /\ server.listener # "none"
    /\ server' = [server EXCEPT !.started = FALSE, !.stop = "flagged"]
    /\ UNCHANGED connection
    /\ serverUnchanged

(* Stop, "if !s.stopped": the connection that wakes Accept is dialled, *)
(* which fails when the listener is closed already.  The read of       *)
(* stopped is not synchronized with the loop's write: it may miss it.  *)
StopDial ==
    /\ Running
    /\ server.stop = "flagged"
    /\ \/ /\ server.stopped
          /\ server' = [server EXCEPT !.stop = "spinning"]
       \/ /\ server.listener = "open"
          /\ server' = [server EXCEPT !.stop = "spinning", !.wake = TRUE]
       \/ /\ server.listener = "closed"
          /\ server' = [server EXCEPT !.stop = "failed"]
    /\ UNCHANGED connection
    /\ serverUnchanged

(* Stop, "for !s.stopped {}" and the return.  Nothing synchronizes the *)
(* loop's write of stopped with these reads: the write may be seen, or *)
(* never be seen, and then the loop spins for ever.                    *)
StopSpin ==
    /\ Running
    /\ server.stop = "spinning"
    /\ \/ /\ server.stopped
          /\ server' = [server EXCEPT !.stop = "returned"]
       \/ server' = [server EXCEPT !.stop = "hung"]
    /\ UNCHANGED connection
    /\ serverUnchanged

(* a sweep launched by a call of the server's engine runs *)
Sweep ==
    /\ Running
    /\ connection.step \notin {"decoded", "closed", "dropped"}
    /\ cleanupExpirations

NextServer ==
    \/ Start
    \/ /\ Free
       /\ \E call \in ClientCalls : ClientSend(call)
    \/ /\ Free
       /\ \E input \in RawRequests : RawSend(input)
    \/ Accept
    \/ HandleRead
    \/ HandleCall
    \/ HandleWrite
    \/ ClientReceive
    \/ Sweep
    \/ /\ Running
       /\ Tick

SpecServer == Init /\ [][NextServer]_vars


(***************************************************************************)
(* The server from Start to Stop, with clients that insert.  Every         *)
(* goroutine that can take a step eventually takes one.                    *)
(***************************************************************************)
StopCalls == {ClientCall("Insert", <<"a">>, "v1", ZeroTime)}

NextStop ==
    \/ Start
    \/ /\ Free
       /\ \E call \in StopCalls : ClientSend(call)
    \/ Accept
    \/ HandleRead
    \/ HandleCall
    \/ HandleWrite
    \/ ClientReceive
    \/ StopFlag
    \/ StopDial
    \/ StopSpin
    \/ Sweep

SpecStop ==
    /\ Init
    /\ [][NextStop]_vars
    /\ WF_vars(Accept)
    /\ WF_vars(HandleRead)
    /\ WF_vars(HandleCall)
    /\ WF_vars(HandleWrite)
    /\ WF_vars(StopDial)
    /\ WF_vars(StopSpin)
    /\ WF_vars(Sweep)

(***************************************************************************)
(* One connection after another, each with bytes that no Client writes or  *)
(* with an Insert, at one instant of the clock.  A handler that can take a *)
(* step eventually takes it.                                               *)
(***************************************************************************)
NextConnection ==
    \/ Start
    \/ /\ Free
       /\ \E call \in StopCalls : ClientSend(call)
    \/ /\ Free
       /\ \E input \in RawRequests : RawSend(input)
    \/ Accept
    \/ HandleRead
    \/ HandleCall
    \/ HandleWrite
    \/ ClientReceive
    \/ Sweep

SpecConnection ==
    /\ Init
    /\ [][NextConnection]_vars
    /\ WF_vars(HandleRead)
    /\ WF_vars(HandleCall)
    /\ WF_vars(HandleWrite)

(***************************************************************************)
(* Properties of the engine run one call at a time (Spec).  Every call,    *)
(* and every sweep, sets ret; only Tick leaves it, so a predicate on ret   *)
(* and the state describes the state the call ret.op returned in.          *)
(***************************************************************************)
Mutators ==
    {"Insert", "Update", "Upsert", "Delete", "Expire", "Truncate", "DeleteBy",
     "ExpireBy", "cleanupExpirations"}

(* C1: once a mutating call has returned, the keys the trie enumerates   *)
(* with Find("") are exactly the keys stored in the map.                 *)
C1_IndexEqualsMap ==
    ret.op \in Mutators => Find(keyIndex, <<"">>) = DOMAIN inMemoryStore

(* C2: Update(k, v) on a present key whose expiration t is still in the  *)
(* future replaces only the value: right afterwards ReadExpiration(k)    *)
(* returns (t, true) and Read(k) returns v.                              *)
C2_UpdateKeepsExpiration ==
    (/\ ret.op = "Update"
     /\ ret.oldIn
     /\ ret.old.hasExpiration
     /\ ret.old.expiration > ret.at)
    => /\ ReadExpirationResult(inMemoryStore, ret.key, ret.at)
            = [expiration |-> ret.old.expiration, present |-> TRUE]
       /\ ReadResult(inMemoryStore, ret.key, ret.at).value = ret.arg
       /\ ReadResult(inMemoryStore, ret.key, ret.at).present

(* C3: Upsert(k, v) on a present key whose expiration t is still in the  *)
(* future replaces the value and keeps t: afterwards Read(k) returns v   *)
(* and ReadExpiration(k) returns (t, true).                              *)
C3_UpsertKeepsExpiration ==
    (/\ ret.op = "Upsert"
     /\ ret.oldIn
     /\ ret.old.hasExpiration
     /\ ret.old.expiration > ret.at)
    => /\ ReadResult(inMemoryStore, ret.key, ret.at).value = ret.arg
       /\ ReadResult(inMemoryStore, ret.key, ret.at).present
       /\ ReadExpirationResult(inMemoryStore, ret.key, ret.at)
            = [expiration |-> ret.old.expiration, present |-> TRUE]

(* C4: when Insert(k, v) returns inserted = true, or Upsert(k, v) is     *)
(* applied to a key that is not present (never stored, deleted, or       *)
(* expired, swept or not), the new entry has no expiration: Read(k)      *)
(* returns v as present and ReadExpiration(k) returns (zero, false), now *)
(* and at every later clock reading, the old expiration time included;   *)
(* and no sweep removes or changes an entry that has no expiration.      *)
C4_CreateClearsExpiration ==
    [][/\ (/\ sweeps' = sweeps + 1
           /\ \/ ret'.op = "Insert" /\ ret'.ok
              \/ /\ ret'.op = "Upsert"
                 /\ ~PresentResult(inMemoryStore, ret'.key, now))
          => \A t \in now..(MaxTime + 1) :
                /\ ReadResult(inMemoryStore', ret'.key, t)
                     = [value |-> ret'.arg, expiration |-> ZeroTime, present |-> TRUE]
                /\ ReadExpirationResult(inMemoryStore', ret'.key, t)
                     = [expiration |-> ZeroTime, present |-> FALSE]
       /\ (sweeps' = sweeps - 1)
          => \A key \in DOMAIN inMemoryStore :
                ~inMemoryStore[key].hasExpiration
                => /\ key \in DOMAIN inMemoryStore'
                   /\ inMemoryStore'[key] = inMemoryStore[key]]_vars

(* an Insert or Upsert has re-created a key over an expired entry that   *)
(* no sweep had removed, and the old expiration time has passed          *)
C4_Witness ==
    /\ ret.op \in {"Insert", "Upsert"}
    /\ ret.ok
    /\ ret.oldIn
    /\ Expired(ret.old, ret.at)
    /\ now > ret.at
    /\ ReadResult(inMemoryStore, ret.key, now).present

ReadOps == {"Read", "Present", "ReadExpiration", "KeysBy"}

(* C6: a key whose entry has expired but has not been swept is reported  *)
(* like a key that was never stored by Read, Present, ReadExpiration     *)
(* (value "", zero time, false) and by KeysBy (not listed), and none of  *)
(* these calls changes the map or the trie.                              *)
C6_ExpiredReadsAsAbsent ==
    [][(ret' # ret /\ ret'.op \in ReadOps)
       => /\ inMemoryStore' = inMemoryStore
          /\ keyIndex' = keyIndex
          /\ (ret'.op # "KeysBy" /\ ret'.oldIn /\ Expired(ret'.old, ret'.at))
             => (ret'.value = "" /\ ret'.expiration = ZeroTime /\ ~ret'.ok)
          /\ ret'.op = "KeysBy"
             => \A key \in DOMAIN inMemoryStore :
                   Expired(inMemoryStore[key], ret'.at) => key \notin ret'.keys]_vars

(* KeysBy("") has just skipped a key the map and the trie still hold     *)
(* although it has expired                                               *)
C6_Witness ==
    /\ ret.op = "KeysBy"
    /\ ret.key = <<"">>
    /\ \E key \in DOMAIN inMemoryStore :
          /\ Expired(inMemoryStore[key], ret.at)
          /\ key \in Find(keyIndex, <<"">>)
          /\ key \notin ret.keys

StoreLen(store) == Cardinality(DOMAIN store)

(* C12 as stated: Count() returns the number of entries in the map; a    *)
(* successful Insert raises that number by one, a failed Insert and any  *)
(* Update leave it, Delete of a stored key lowers it by one, the passage *)
(* of time never changes it, and an expired entry leaves the map only by *)
(* a sweep.                                                              *)
C12_CountTracksCalls ==
    [][/\ ret'.op = "Count" => ret'.n = StoreLen(inMemoryStore')
       /\ (sweeps' = sweeps + 1 /\ ret'.op = "Insert")
          => StoreLen(inMemoryStore') = StoreLen(inMemoryStore) + (IF ret'.ok THEN 1 ELSE 0)
       /\ (sweeps' = sweeps + 1 /\ ret'.op = "Update")
          => StoreLen(inMemoryStore') = StoreLen(inMemoryStore)
       /\ (sweeps' = sweeps + 1 /\ ret'.op = "Delete" /\ ret'.oldIn)
          => StoreLen(inMemoryStore') = StoreLen(inMemoryStore) - 1
       /\ now' # now => inMemoryStore' = inMemoryStore
       /\ \A key \in ExpiredKeys(inMemoryStore, now) :
             key \notin DOMAIN inMemoryStore' => sweeps' = sweeps - 1]_vars

(* C12 amended: Count() returns the number of entries in the map; a      *)
(* successful Insert raises that number by one unless the key's expired  *)
(* entry was still in the map, in which case it replaces that entry and  *)
(* the number stays; a failed Insert and any Update leave it, Delete of  *)
(* a stored key, expired or not, lowers it by one, the passage of time   *)
(* never changes it, and an expired entry stays counted until a sweep,   *)
(* a Delete of its key, a DeleteBy or a Truncate takes it out of the     *)
(* map.                                                                  *)
C12_CountIsMapSize ==
    [][/\ ret'.op = "Count" => ret'.n = StoreLen(inMemoryStore')
       /\ (sweeps' = sweeps + 1 /\ ret'.op = "Insert")
          => StoreLen(inMemoryStore')
               = StoreLen(inMemoryStore) + (IF ret'.ok /\ ~ret'.oldIn THEN 1 ELSE 0)
       /\ (sweeps' = sweeps + 1 /\ ret'.op = "Update")
          => StoreLen(inMemoryStore') = StoreLen(inMemoryStore)
       /\ (sweeps' = sweeps + 1 /\ ret'.op = "Delete" /\ ret'.oldIn)
          => StoreLen(inMemoryStore') = StoreLen(inMemoryStore) - 1
       /\ now' # now => inMemoryStore' = inMemoryStore
       /\ \A key \in ExpiredKeys(inMemoryStore, now) :
             key \notin DOMAIN inMemoryStore'
             => \/ sweeps' = sweeps - 1
                \/ ret'.op = "Delete" /\ ret'.key = key
                \/ ret'.op \in {"DeleteBy", "Truncate"}]_vars

(* Count has just counted an entry whose expiration had passed *)
C12_Witness ==
    /\ ret.op = "Count"
    /\ ret.n = StoreLen(inMemoryStore)
    /\ ExpiredKeys(inMemoryStore, ret.at) # {}

(* C13: right after Truncate returns the map is empty (Count() is 0),    *)
(* every key is absent, and the trie enumerates no key, so that a        *)
(* DeleteBy("") that follows returns 0.                                  *)
C13_TruncateEmptiesMapAndTrie ==
    ret.op = "Truncate"
    => /\ StoreLen(inMemoryStore) = 0
       /\ \A key \in Keys : ~PresentResult(inMemoryStore, key, now)
       /\ Cardinality(Find(keyIndex, <<"">>)) = 0

(* C14: KeysBy(q) returns exactly the present keys k with q = "", k = q  *)
(* or k beginning with q followed by the delimiter, each once; a query   *)
(* that is no whole-component prefix of any present key (it ends with    *)
(* the delimiter, or names a component no key has) returns nothing.      *)
C14_KeysByExactPrefix ==
    ret.op = "KeysBy"
    => /\ ret.keys = {key \in Keys :
                        /\ PresentResult(inMemoryStore, key, ret.at)
                        /\ (ret.key = <<"">> \/ IsUnder(key, ret.key))}
       /\ ret.n = Cardinality(ret.keys)

(* KeysBy("a:") has returned nothing although "a" and "a:b" are present, *)
(* and the trie also holds them                                          *)
C14_Witness ==
    /\ ret.op = "KeysBy"
    /\ ret.key = <<"a", "">>
    /\ ret.keys = {}
    /\ \A key \in Keys : PresentResult(inMemoryStore, key, ret.at)
    /\ Keys \subseteq Find(keyIndex, <<"">>)

(* the keys of the map that are present at t and match the prefix *)
PresentMatching(store, prefix, t) ==
    {key \in DOMAIN store :
        /\ PresentResult(store, key, t)
        /\ (prefix = <<"">> \/ IsUnder(key, prefix))}

(* C15: DeleteBy(prefix) removes every present key that matches the      *)
(* prefix from the map and from the trie, leaves every key that does not *)
(* match with its entry untouched, and returns the number of present     *)
(* keys it removed: expired entries are not counted, and the result is 0 *)
(* on an empty store and for a prefix that matches nothing.              *)
C15_DeleteByCountsPresent ==
    [][(ret'.op = "DeleteBy" /\ now' = now)
       => LET gone == PresentMatching(inMemoryStore, ret'.key, now)
          IN /\ ret'.n = Cardinality(gone)
             /\ \A key \in gone :
                   /\ key \notin DOMAIN inMemoryStore'
                   /\ key \notin Find(keyIndex', <<"">>)
             /\ \A key \in DOMAIN inMemoryStore :
                   ~(ret'.key = <<"">> \/ IsUnder(key, ret'.key))
                   => /\ key \in DOMAIN inMemoryStore'
                      /\ inMemoryStore'[key] = inMemoryStore[key]]_vars

Quiescent ==
    /\ \A c \in Clients : pc[c] = "idle"
    /\ lock = "free"
    /\ sweeps = 0

(* C8: two Insert calls on the same absent key, with no other call: one  *)
(* returns inserted = true, the other returns false together with the    *)
(* winner's value, and the value stored at the end is the winner's.      *)
C8_OneInsertWins ==
    (/\ opsLeft = MaxOps - 2
     /\ \A c \in Clients : pc[c] = "idle" /\ loc[c].op = "Insert"
     /\ \A c, d \in Clients : loc[c].key = loc[d].key)
    => \E w, l \in Clients :
          /\ w # l
          /\ loc[w].ok
          /\ ~loc[l].ok
          /\ loc[l].value = loc[w].arg
          /\ Lookup(inMemoryStore, loc[w].key).value = loc[w].arg

(* C9: every statement that reads or writes the map or the trie, in any  *)
(* call including Count and KeysBy, is executed by a goroutine that      *)
(* holds the engine mutex.                                               *)
C9_AccessUnderLock == \A c \in Clients : pc[c] \in AccessPcs => lock = c

WorkloadAccessPcs == AccessPcs \ {"KeysBy_read", "Count_len", "KeysBy_find"}

C11_ExpiredEventuallySwept ==
    \A key \in EmptyKeys :
       (sweeps > 0 /\ key \in ExpiredKeys(inMemoryStore, now))
       ~> (/\ key \notin ExpiredKeys(inMemoryStore, now)
           /\ key \in Find(keyIndex, <<"">>) => key \in DOMAIN inMemoryStore)

(* C17: Expire(k, t) on a present key returns true and replaces the      *)
(* entry's expiration, whatever it was, by t, keeping the value; a t     *)
(* already past is accepted and leaves k absent at once.  On a key that  *)
(* is absent (not stored, or expired) it returns false and changes       *)
(* nothing.  The trie is never touched.                                  *)
C17_ExpireSetsExpiration ==
    [][(ret'.op = "Expire" /\ now' = now)
       => /\ keyIndex' = keyIndex
          /\ IF PresentResult(inMemoryStore, ret'.key, now)
             THEN /\ ret'.ok
                  /\ inMemoryStore'
                       = MapSet(inMemoryStore, ret'.key,
                                [value |-> inMemoryStore[ret'.key].value,
                                 hasExpiration |-> TRUE,
                                 expiration |-> ret'.argt])
                  /\ ret'.argt < now
                     => ~PresentResult(inMemoryStore', ret'.key, now)
             ELSE /\ ~ret'.ok
                  /\ inMemoryStore' = inMemoryStore]_vars

(* an Expire with a timestamp already past has replaced a later          *)
(* expiration, and the key, still in the map with its value, is absent   *)
C17_Witness ==
    /\ ret.op = "Expire"
    /\ ret.ok
    /\ ret.old.hasExpiration
    /\ ret.argt < ret.at
    /\ ret.old.expiration > ret.argt
    /\ ret.key \in DOMAIN inMemoryStore
    /\ inMemoryStore[ret.key].value = ret.old.value
    /\ inMemoryStore[ret.key].expiration = ret.argt
    /\ ~PresentResult(inMemoryStore, ret.key, now)

C18_DeleteRemovesKey ==
    [][(ret'.op = "Delete" /\ sweeps' = sweeps + 1)
       => /\ ret'.ok = PresentResult(inMemoryStore, ret'.key, now)
          /\ ret'.key \notin DOMAIN inMemoryStore'
          /\ ret'.key \notin Find(keyIndex', <<"">>)
          /\ ~PresentResult(inMemoryStore, ret'.key, now)
             => /\ inMemoryStore' = inMemoryStore
                /\ keyIndex' = keyIndex]_vars

(***************************************************************************)
(* Properties of the wire codec (SpecWire).                                *)
(***************************************************************************)
RECURSIVE FrameLength(_)
FrameLength(params) ==
    IF params = <<>> THEN 0 ELSE 6 + Len(Head(params)) + FrameLength(Tail(params))

(* C20: for every command and every list of arguments, empty arguments   *)
(* and arguments holding the separator byte included, the message that   *)
(* EncodeMessage builds has the length 5 + len(command) + the sum of     *)
(* 6 + len(argument) over the arguments, carries that length in its      *)
(* first four bytes, little-endian, and is decoded without error into    *)
(* the same command and the same arguments.                              *)
C20_RoundTrip ==
    /\ wire.step \in {"encoded", "decoded"}
       => /\ Len(wire.message) = 5 + Len(wire.command) + FrameLength(wire.params)
          /\ Uint32(SubSeq(wire.message, 1, 4)) = Len(wire.message)
          /\ \A i \in 2..4 : wire.message[i] = (Len(wire.message) \div (256 ^ (i - 1))) % 256
    /\ wire.step = "decoded"
       => /\ ~wire.err
          /\ wire.gotCommand = wire.command
          /\ wire.gotArguments = wire.params

(* a message of two arguments, the first empty and the second made of    *)
(* separator bytes only, has been decoded                                *)
C20_Witness ==
    /\ wire.step = "decoded"
    /\ Len(wire.params) = 2
    /\ wire.params[1] = <<>>
    /\ wire.params[2] = <<messageSeparatorBinary, messageSeparatorBinary>>
    /\ wire.gotArguments = wire.params

(* the number of arguments the request decoder of a command takes *)
Shape(command) == IF command \in KeyCommands THEN 1 ELSE 2

(* the message in hand is the well-formed one with a byte appended, with *)
(* its last byte removed, or with the declared length of an argument     *)
(* running past its end                                                  *)
Malformed ==
    LET wellFormed == EncodeMessage(wire.command, wire.params)
    IN \/ /\ Len(wire.message) = Len(wellFormed) + 1
          /\ SubSeq(wire.message, 1, Len(wellFormed)) = wellFormed
       \/ wire.message = SubSeq(wellFormed, 1, Len(wellFormed) - 1)
       \/ /\ Len(wire.message) = Len(wellFormed)
          /\ \E i \in 1..Len(wire.params) :
                LET offset == argumentOffset(wire.command, wire.params, i)
                IN /\ SubSeq(wire.message, 1, offset + 1)
                         = SubSeq(wellFormed, 1, offset + 1)
                   /\ offset + 6
                         + Uint32(SubSeq(wire.message, offset + 2, offset + 5))
                         > Len(wire.message)

(* C21: the Decode function of a command returns an error, and empty    *)
(* strings for its arguments, when the message is a well-formed one     *)
(* with one byte appended or its last byte removed, when the declared   *)
(* length of an argument runs past the end of the message, and when the *)
(* number of arguments is not the one the command takes.                *)
C21_MalformedRejected ==
    (/\ wire.step = "shaped"
     /\ Malformed \/ Len(wire.params) # Shape(wire.command))
    => /\ wire.err
       /\ \A i \in 1..Len(wire.gotArguments) : wire.gotArguments[i] = <<>>

(* a READ message of one argument with a separator appended has been *)
(* through DecodeRead                                                *)
C21_Witness ==
    /\ wire.step = "shaped"
    /\ wire.err
    /\ wire.command = READ
    /\ wire.params = <<<<65>>>>
    /\ wire.message = Append(EncodeMessage(READ, wire.params),
                             messageSeparatorBinary)

(* the index where the token of a request ends: the first separator at *)
(* index 5 or after, or the end of the request                         *)
TokenEnd(request) ==
    IF Len(request) <= 5 THEN 5
    ELSE CHOOSE n \in 5..Len(request) :
             /\ n = Len(request) \/ request[n + 1] = messageSeparatorBinary
             /\ \A j \in 5..(n - 1) : request[j + 1] # messageSeparatorBinary

(* C22: DecipherCommand returns a command, the one spelled, exactly when *)
(* the bytes from index 5 up to the next separator or the end of the     *)
(* request spell one of the sixteen tokens; for every other request, the *)
(* empty one and those shorter than six bytes included, it returns an    *)
(* error and no command.                                                 *)
C22_DecipherCommand ==
    wire.step = "deciphered"
    => LET token == SubSeq(wire.message, 6, TokenEnd(wire.message))
       IN /\ ~wire.err <=> token \in ValidCommands
          /\ ~wire.err => wire.gotCommand = token
          /\ wire.err => wire.gotCommand = <<>>
          /\ Len(wire.message) < 6 => wire.err

(* READEXPIRATION followed by a separator and a letter has been read *)
C22_Witness ==
    /\ wire.step = "deciphered"
    /\ ~wire.err
    /\ wire.gotCommand = READEXPIRATION
    /\ Len(wire.message) = 5 + Len(READEXPIRATION) + 2

(* C23: EncodeNullResponse, EncodeAckResponse and EncodeErrResponse give *)
(* byte for byte the message EncodeMessage gives for NULL, for ACK and   *)
(* for ERR with the text of the error; the first four bytes of each are  *)
(* its length, and DecodeError returns the text that EncodeErrResponse   *)
(* was given.                                                            *)
C23_ResponsesAgree ==
    /\ wire.step \in {"response", "errorDecoded"}
       => /\ wire.message = EncodeMessage(wire.command, wire.params)
          /\ Uint32(SubSeq(wire.message, 1, 4)) = Len(wire.message)
    /\ wire.step = "errorDecoded"
       => /\ ~wire.err
          /\ wire.gotArguments = wire.params

(* an error whose text is a letter and a separator has been encoded and *)
(* read back                                                            *)
C23_Witness ==
    /\ wire.step = "errorDecoded"
    /\ wire.command = ERR
    /\ wire.params = <<<<65, messageSeparatorBinary>>>>
    /\ wire.gotArguments = wire.params

(***************************************************************************)
(* Properties of the server (SpecServer).  While the connection is closed  *)
(* and the client has not read the response, ret is what the engine        *)
(* returned to the handler of the connection, with the call it answers.    *)
(***************************************************************************)
(* the handler has served the request and written its response *)
Served ==
    /\ connection.step = "closed"
    /\ connection.failed = "none"
    /\ ~connection.writeErr

(* C24: the handler of a request that decodes has called the engine's   *)
(* operation of the request's command, once, with the decoded           *)
(* arguments, and has written one response: ACK when Insert, Update,    *)
(* Delete, Present or Expire returned true and NULL when it returned    *)
(* false; for READ, READ with the value when the key is present and     *)
(* NULL when it is absent; for TRUNCATE, ACK.                           *)
C24_Dispatch ==
    Served
    => LET command == connection.command
           arguments == connection.arguments
       IN /\ connection.frames = 1
          /\ ret.op # "none"
          /\ OpCommand(ret.op) = command
          /\ Len(arguments) >= 1 => ret.key = KeyOf(arguments[1])
          /\ Len(arguments) = 2 => ret.arg = ValueOf(arguments[2])
          /\ command = EXPIRE => ret.argt = connection.expiration
          /\ command \in {INSERT, UPDATE, DELETE, PRESENT, EXPIRE}
             => connection.output = IF ret.ok THEN EncodeMessage(ACK, <<>>)
                                    ELSE EncodeMessage(NULL, <<>>)
          /\ command = READ
             => connection.output = IF ret.ok
                                    THEN EncodeMessage(READ, <<Bytes(ret.value)>>)
                                    ELSE EncodeMessage(NULL, <<>>)
          /\ command = TRUNCATE => connection.output = EncodeMessage(ACK, <<>>)

(* an UPDATE of an absent key has been answered NULL *)
C24_Witness ==
    /\ Served
    /\ connection.command = UPDATE
    /\ ret.op = "Update"
    /\ ~ret.ok
    /\ connection.output = EncodeNullResponse


(***************************************************************************)
(* C25: when decoding the command or its arguments fails, the server       *)
(* writes exactly one ERR frame carrying the decoder's message, invokes no *)
(* engine operation and leaves the store unchanged.  Stated of the step of *)
(* the handler that finds the failure and writes the ERR frame with        *)
(* success: ret, which every engine operation sets, is as the dial left    *)
(* it, and the map and the trie are those of before the step.              *)
(***************************************************************************)
C25_DecodeFailureAnswered ==
    [][(/\ connection.step = "accepted"
        /\ connection'.failed = "decode"
        /\ ~connection'.writeErr)
           => /\ connection'.frames = 1
              /\ connection'.output = EncodeMessage(ERR, <<ErrorText("decode")>>)
              /\ ret' = NoResult
              /\ inMemoryStore' = inMemoryStore
              /\ keyIndex' = keyIndex]_vars

(***************************************************************************)
(* C26: each accepted connection serves at most one request.  The handler  *)
(* reads one frame, the bytes that the first four bytes count, and no byte *)
(* after it; it writes at most one frame; an engine operation is called    *)
(* only by a handler that has decoded its message and has called none, and *)
(* once it has called one the store stays as it is until the connection is *)
(* closed; and every accepted connection is eventually closed, whether the *)
(* request is served or the read, the decoding or the write fails.         *)
(***************************************************************************)
EngineCalled == ret' # ret /\ ret'.op \notin {"none", "cleanupExpirations"}

C26_OneRequest ==
    /\ [](/\ connection.frames <= 1
          /\ (connection.step \in {"decoded", "closed"} /\ connection.failed # "read")
                 => connection.message =
                        SubSeq(connection.input, 1,
                               Uint32(SubSeq(connection.input, 1, 4))))
    /\ [][/\ EngineCalled
              => /\ connection.step = "decoded"
                 /\ ret.op = "none"
                 /\ connection' = connection
          /\ (connection.step = "decoded" /\ ret.op # "none")
              => /\ connection'.step \in {"decoded", "closed"}
                 /\ UNCHANGED <<inMemoryStore, keyIndex, ret>>]_vars
    /\ (connection.step = "accepted") ~> (connection.step = "closed")

(* two messages were sent in a row, an Insert and a Delete of the same *)
(* key: the connection is closed, one frame was written and the key is *)
(* stored                                                              *)
C26_Witness ==
    /\ connection.step = "closed"
    /\ Len(connection.input) > Len(connection.message)
    /\ connection.command = INSERT
    /\ connection.frames = 1
    /\ ret.op = "Insert"
    /\ <<"a">> \in DOMAIN inMemoryStore

(***************************************************************************)
(* C27: after Stop is called on a started server, the accept loop          *)
(* eventually exits, the listener is closed and Stop returns; and Stop     *)
(* never returns success before the loop has exited.  Stop has been called *)
(* once it has set started to false; it returns nil (returned) or the      *)
(* error of its dial (failed).                                             *)
(***************************************************************************)
C27_StopCompletes ==
    /\ [](server.stop = "returned" => server.loop = "exited")
    /\ (server.stop = "flagged")
           ~> (/\ server.loop = "exited"
               /\ server.listener = "closed"
               /\ server.stop \in {"returned", "failed"})

(***************************************************************************)
(* C28: once the listener has been closed by shutdown, no new expiration   *)
(* sweep is started, also not by the handler of a connection accepted      *)
(* before the close.  sweeps counts the sweeps launched and not yet run: a *)
(* step that starts one raises it, a sweep that finishes lowers it.        *)
(***************************************************************************)
C28_NoSweepAfterClose ==
    [][server.listener = "closed" => sweeps' <= sweeps]_vars

(***************************************************************************)
(* C30: under any interleaving of Update(k, v) with concurrent Delete or   *)
(* sweeps, Update never adds a key to the map: at the step at which Update *)
(* writes, k is stored, the step leaves the set of stored keys as it is,   *)
(* and afterwards the map holds no key that the trie lacks.                *)
(***************************************************************************)
C30_UpdateNeverAddsKey ==
    [][\A c \in Clients :
          (pc[c] = "Update_checked" /\ pc'[c] = "Update_write")
              => /\ loc[c].key \in DOMAIN inMemoryStore
                 /\ DOMAIN inMemoryStore' = DOMAIN inMemoryStore
                 /\ DOMAIN inMemoryStore' \subseteq Find(keyIndex', <<"">>)]_vars

C31_ReadValuesWereWritten ==
    [][\A c \in Clients :
          (pc[c] = "Expire_checked" /\ pc'[c] = "Expire_write")
              => /\ DOMAIN inMemoryStore' = DOMAIN inMemoryStore
                 /\ \A key \in DOMAIN inMemoryStore' :
                       inMemoryStore'[key].value \in Values]_vars

(***************************************************************************)
(* C32: a sweep removes an entry only if it has an expiration earlier than *)
(* the time the sweep read under the lock; it removes that key from the    *)
(* map and from the trie in the same critical section, and never removes   *)
(* or changes an entry with no expiration or a later expiration, nor any   *)
(* descendant key of a removed key in the trie.  Stated of the step of a   *)
(* sweep, which is one critical section: the keys that leave the map were  *)
(* expired at the clock's reading, the entries that stay are unchanged,    *)
(* and the keys the trie lists are those it listed less the removed ones.  *)
(***************************************************************************)
C32_SweepRemovesOnlyExpired ==
    [][sweeps' = sweeps - 1
          => LET gone == DOMAIN inMemoryStore \ DOMAIN inMemoryStore'
             IN /\ \A key \in gone : Expired(inMemoryStore[key], now)
                /\ DOMAIN inMemoryStore' \subseteq DOMAIN inMemoryStore
                /\ \A key \in DOMAIN inMemoryStore' :
                      inMemoryStore'[key] = inMemoryStore[key]
                /\ Find(keyIndex', <<"">>) = Find(keyIndex, <<"">>) \ gone]_vars
(* the statements between a Lock and its Unlock *)
SectionPcs ==
    {"Insert_read", "Insert_write", "Update_read", "Update_write",
     "Upsert_write", "Delete_read", "Delete_write", "Expire_read",
     "Expire_write", "KeysBy_read", "DeleteBy_write", "Truncate_write",
     "ExpireBy_read", "ExpireBy_present", "ExpireBy_write"}

(* C33: a caller holds the mutex exactly while it is inside one of its     *)
(* critical sections, so it never reaches a Lock while holding it; and     *)
(* with goroutines scheduled fairly, whenever a call or a sweep is under   *)
(* way a state follows in which every call has returned, every sweep       *)
(* launched has run and the mutex is free.                                 *)
C33_NoDeadlock ==
    /\ [](\A c \in Clients : lock = c <=> pc[c] \in SectionPcs)
    /\ (~Quiescent) ~> Quiescent

(* one caller inside a critical section while another caller waits for   *)
(* the mutex in the middle of its call and a sweep waits for it too      *)
C33_Witness ==
    \E c \in Clients, d \in Clients :
        /\ c # d
        /\ lock = c
        /\ pc[c] \in SectionPcs
        /\ pc[d] \in {"Insert_checked", "Expire_checked", "ExpireBy_checked", "ExpireBy_range"}
        /\ sweeps > 0
(* the values of the trie's nodes that have isKey set *)
KeyNodes(t) == {NodeValue(p) : p \in {q \in DOMAIN t : t[q].isKey}}

(* C34: on non-empty keys, every operation other than Truncate, and every  *)
(* sweep, run to completion from a state in which the nodes marked isKey   *)
(* are the keys of the map, ends in such a state; the new store is such a  *)
(* state.                                                                  *)
C34_KeyNodesAreMapKeys ==
    [][/\ KeyNodes(NewPrefixTrie) = {}
       /\ (KeyNodes(keyIndex) = DOMAIN inMemoryStore /\ ~Truncate)
             => KeyNodes(keyIndex') = DOMAIN inMemoryStore']_vars

(* a DeleteBy has removed a key and its node while another key and its *)
(* node stay                                                            *)
C34_Witness ==
    /\ ret.op = "DeleteBy"
    /\ ret.n > 0
    /\ DOMAIN inMemoryStore # {}
    /\ KeyNodes(keyIndex) = DOMAIN inMemoryStore
(* the keys the caller has added and not deleted since *)
Held == DOMAIN inMemoryStore

(* C35: a Find(q) returns exactly the keys added and not since deleted   *)
(* that q covers: all of them for q = "", else q itself and the keys     *)
(* that start with q + ":"; so on a trie holding no keys it returns none *)
C35_FindReturnsHeldKeys ==
    ret.op = "Find" => ret.keys = {key \in Held : Covers(ret.key, key)}
(* C36: after a Delete or a DeleteAll every node of the trie other than *)
(* the root is a key or has a key beneath it                            *)
C36_NoOrphanPrefix ==
    ret.op \in {"Delete", "DeleteAll"}
        => \A p \in DOMAIN keyIndex \ {<<>>} :
              \E q \in DOMAIN keyIndex : IsUnder(q, p) /\ keyIndex[q].isKey
(* C37: Delete(k) returns true exactly when k was a key; on a key whose  *)
(* node has children it changes nothing but the key mark of that node,   *)
(* and every Find returns what it returned before, less k                *)
C37_DeleteClearsMarkOnly ==
    [][\A key \in TrieKeys :
          TrieDelete(key)
              => LET wasKey == key \in DOMAIN keyIndex /\ keyIndex[key].isKey
                 IN /\ ret'.ok = wasKey
                    /\ (wasKey /\ Children(keyIndex, key) # {})
                          => /\ keyIndex' = [keyIndex EXCEPT ![key].isKey = FALSE]
                             /\ \A prefix \in TriePrefixes :
                                   Find(keyIndex', prefix) = Find(keyIndex, prefix) \ {key}]_vars
(* C38: Add(k) leaves the trie with the nodes it had and one node for    *)
(* each cumulative prefix of k, the last of them marked as a key and the *)
(* key mark of every other node as it was; Add of a key already marked   *)
(* leaves the trie as it was                                             *)
C38_AddOnePath ==
    [][\A key \in TrieKeys :
          TrieAdd(key)
              => LET path == {SubSeq(key, 1, i) : i \in 1..Len(key)}
                     marked(t, p) == p \in DOMAIN t /\ t[p].isKey
                 IN /\ DOMAIN keyIndex' = DOMAIN keyIndex \cup path
                    /\ keyIndex'[key].isKey
                    /\ \A p \in DOMAIN keyIndex' \ {key} :
                          keyIndex'[p].isKey = marked(keyIndex, p)
                    /\ marked(keyIndex, key) => keyIndex' = keyIndex]_vars

(* a:b:c added beneath the key a:b: the node a is used again and is not *)
(* marked, a:b keeps its mark                                           *)
C38_Witness ==
    /\ ret.op = "Add"
    /\ ret.key = <<"a", "b", "c">>
    /\ keyIndex[<<"a", "b", "c">>].isKey
    /\ keyIndex[<<"a", "b">>].isKey
    /\ ~keyIndex[<<"a">>].isKey
(* C39: a request that DecipherCommand and the Decode function of its    *)
(* command read without error is, byte for byte, the message             *)
(* EncodeMessage builds for the command and the arguments read           *)
C39_OnlyCanonicalDecodes ==
    (/\ wire.step = "shaped"
     /\ wire.command \in KeyCommands \cup KeyValueCommands
     /\ ~wire.err
     /\ ~DecipherCommand(wire.message).err)
    => wire.message = EncodeMessage(DecipherCommand(wire.message).command,
                                    wire.gotArguments)
(* C40: once a request that failed to decode has been answered with an *)
(* ERR frame, the server's process is still running                    *)
C40_ErrKeepsServerRunning ==
    (/\ connection.failed = "decode"
     /\ connection.frames = 1
     /\ connection.output = EncodeMessage(ERR, <<ErrorText("decode")>>))
    => Running
====
